---- MODULE Spec2Model ----
(***************************************************************************)
(* Molecular topology toolkit: the parameter checker                       *)
(* (tools/parameter_checker/parameter_checker.py), the topology deriver    *)
(* (mdf-parser-cli/parser/topology.py) and the CHARMM section parser, in   *)
(* its strict (tools/charmm_parser/parsers.py) and its permissive          *)
(* (charmm_parse.py) variant.                                              *)
(*                                                                         *)
(* Conventions of the model                                                *)
(*  - a Python tuple or list is a sequence; a dict is the sequence of its  *)
(*    entries in insertion order;                                          *)
(*  - a pandas DataFrame is the sequence of its rows in index order; the   *)
(*    columns 'Atom 1'..'Atom n' (or 'Force Field Type') of a row are the  *)
(*    sequence row.atoms, 'Line Number' is row.line;                       *)
(*  - None is the empty sequence NoLine, an int n is <<n>>;                *)
(*  - '-'.join(t) and the f-strings "a-b-c" are the tuple itself.          *)
(***************************************************************************)
EXTENDS Integers, Sequences, FiniteSets, TLC

VARIABLES
    pc,            \* position of the running function
    param_type,    \* compare_parameters: param_type ("atom" for compare_atoms)
    mdf_params,    \* compare_parameters: mdf_params (dict keyed by label tuples)
    mdf_atoms,     \* compare_atoms: mdf_atoms (set of labels)
    charmm_params, \* compare_parameters: charmm_params (set of normalized tuples)
    charmm_df,     \* compare_parameters / compare_atoms: the category's DataFrame
    results,       \* the Match Result rows returned
    atoms_data,    \* the Connectivity Model (dict atom id -> charge_group, neighbors)
    bond_map,      \* extract_topology: bond_map
    angle_map,     \* extract_topology: angle_map
    dihedral_map,  \* extract_topology: dihedral_map
    bond_pairs,    \* extract_topology: the pairs of bond_pairs not yet iterated
    mdf_angles,    \* main: the normalized angle keys
    mdf_dihedrals, \* main: the normalized dihedral keys
    charmm_data,   \* main: the parsed parameter file (category -> DataFrame)
    charmm_sets,   \* main: charmm_atoms, charmm_bonds, charmm_angles, charmm_dihedrals
    permissive,    \* section parser: FALSE parsers.py (strict), TRUE charmm_parse.py
    lines,         \* parse_bonds_section: lines (each line the sequence of its tokens)
    start_line,    \* parse_bonds_section: start_line
    line_index,    \* parse_bonds_section: position of the loop in lines
    parsed_data,   \* parse_bonds_section: parsed_data
    current_entry, \* parse_bonds_section: index in parsed_data of current_entry, 0 for None
    last_line_was_comment, \* parse_bonds_section: last_line_was_comment
    file,          \* parse_charmm_parameter_file: lines (the lines of the file)
    file_index,    \* parse_charmm_parameter_file: i + 1, the 1-based position of the loop
    sections,      \* parse_charmm_parameter_file: sections (name -> lines, start_line)
    current_section,    \* parse_charmm_parameter_file: current_section ("" for None)
    section_lines,      \* parse_charmm_parameter_file: section_lines
    current_start_line, \* parse_charmm_parameter_file: current_start_line
    section_index, \* parse_charmm_parameter_file: position of the loop over sections.items()
    parsed_file,   \* parse_charmm_parameter_file: its parsed_data (name -> DataFrame)
    mdf_file,      \* parse_mdf_file: the lines of the file f
    line_num,      \* parse_mdf_file: line_num
    in_molecule_section, \* parse_mdf_file: in_molecule_section
    column_indices \* parse_mdf_file: column_indices

cmpVars == <<param_type, mdf_params, charmm_params, charmm_df>>
topoVars == <<atoms_data, bond_map, angle_map, dihedral_map, bond_pairs>>
mainVars == <<mdf_angles, mdf_dihedrals, charmm_data, charmm_sets>>
secVars == <<permissive, lines, start_line, line_index, parsed_data, current_entry,
            last_line_was_comment>>
fileVars == <<file, file_index, sections, current_section, section_lines,
             current_start_line, section_index, parsed_file>>
mdfVars == <<mdf_file, line_num, in_molecule_section, column_indices>>
vars == <<pc, mdf_atoms, results, cmpVars, topoVars, mainVars, secVars, fileVars, mdfVars>>

\* ------------------------------------------------------------------ bounds
\* most rows a category's DataFrame holds
MaxRecords == 2
\* most atoms of a Connectivity Model
MaxAtoms == 4
\* most neighbour entries a Connectivity Model lists in total
MaxLinks == 3
\* most lines of a section, and of a parameter file
MaxLines == 4
\* most lines of a connectivity file
MaxMdfLines == 3

\* ------------------------------------------------------------- Python data
NoLine == <<>>

Reverse(t) == [i \in 1..Len(t) |-> t[Len(t) + 1 - i]]

\* the orderings of a finite set, each as a sequence (iteration orders of a set)
Orderings(S) ==
    {f \in [1..Cardinality(S) -> S] : \A i, j \in 1..Cardinality(S) : i # j => f[i] # f[j]}

\* all sequences over S of length 0..n
SeqsUpTo(S, n) == UNION {[1..k -> S] : k \in 0..n}

\* label tuples of a given arity
Tuples(S, n) == [1..n -> S]

\* str ordering of the labels used: position in LabelOrder
LabelOrder == <<"A", "B", "C", "D", "H", "X">>
Rank(l) == CHOOSE i \in DOMAIN LabelOrder : LabelOrder[i] = l
StrLess(a, b) == Rank(a) < Rank(b)

\* tuple ordering: lexicographic, a proper prefix is smaller
RECURSIVE TupleLessFrom(_, _, _)
TupleLessFrom(s, t, i) ==
    IF i > Len(s) THEN i <= Len(t)
    ELSE IF i > Len(t) THEN FALSE
    ELSE IF s[i] # t[i] THEN StrLess(s[i], t[i])
    ELSE TupleLessFrom(s, t, i + 1)
TupleLess(s, t) == TupleLessFrom(s, t, 1)

\* min(a, b) of Python: b only when b < a
PyMin(a, b) == IF TupleLess(b, a) THEN b ELSE a
\* min / max of two str
StrMin(a, b) == IF StrLess(b, a) THEN b ELSE a
StrMax(a, b) == IF StrLess(a, b) THEN b ELSE a
\* sorted([a, b])
Sorted2(a, b) == IF StrLess(b, a) THEN <<b, a>> ELSE <<a, b>>

Keys(map) == [i \in 1..Len(map) |-> map[i].key]

\* ------------------------------------------------------------- topology
\* atoms_data is the sequence of its entries [id, charge_group, neighbors] in
\* insertion order; atom identifiers are numbers ordered as the str are
Known(atoms, x) == \E i \in 1..Len(atoms) : atoms[i].id = x
Group(atoms, x) == atoms[CHOOSE i \in 1..Len(atoms) : atoms[i].id = x].charge_group
Neighbors(atoms, x) == atoms[CHOOSE i \in 1..Len(atoms) : atoms[i].id = x].neighbors

\* f[1] \o ... \o f[n]
RECURSIVE ConcatTo(_, _)
ConcatTo(f, n) == IF n = 0 THEN <<>> ELSE ConcatTo(f, n - 1) \o f[n]
Concat(f) == ConcatTo(f, Len(f))

\* `if key not in map: map[key] = []` then `map[key].append(path)`
MapAppend(map, key, path) ==
    IF \E i \in 1..Len(map) : map[i].key = key
    THEN LET i == CHOOSE j \in 1..Len(map) : map[j].key = key
         IN  [map EXCEPT ![i].paths = Append(@, path)]
    ELSE Append(map, [key |-> key, paths |-> <<path>>])

\* the appends of a loop, applied in order
RECURSIVE MapExtend(_, _, _)
MapExtend(map, emitted, i) ==
    IF i > Len(emitted) THEN map
    ELSE MapExtend(MapAppend(map, emitted[i].key, emitted[i].path), emitted, i + 1)

\* mutant of BondKey: the two labels are not sorted
BondKeyUnsorted(groupA, groupB) == <<groupA, groupB>>

\* line 28: tuple(sorted([groupA, groupB]))
BondKey(groupA, groupB) == Sorted2(groupA, groupB)

\* mutant of AngleKey: the ends are not sorted
AngleKeyUnsorted(groupA, groupB, groupC) == <<groupA, groupB, groupC>>

\* lines 49-50: (sorted_ends[0], groupB, sorted_ends[1])
AngleKey(groupA, groupB, groupC) ==
    LET sorted_ends == Sorted2(groupA, groupC) IN <<sorted_ends[1], groupB, sorted_ends[2]>>

\* lines 84-86: min(forward, reverse)
DihedralKey(groupA, groupB, groupC, groupD) ==
    LET forward == <<groupA, groupB, groupC, groupD>> IN PyMin(forward, Reverse(forward))

\* mutant of BondEmissions: a neighbour that is no atom of the model is kept
BondEmissionsKeepDangling(atoms) ==
    Concat([a \in 1..Len(atoms) |->
        Concat([n \in 1..Len(atoms[a].neighbors) |->
            LET nbr_label == atoms[a].neighbors[n]
            IN  << [key |-> IF Known(atoms, nbr_label)
                            THEN BondKey(atoms[a].charge_group, Group(atoms, nbr_label))
                            ELSE BondKey(atoms[a].charge_group, atoms[a].charge_group),
                     path |-> <<atoms[a].id, nbr_label>>] >>])])

\* lines 22-35: what the bond loop appends, in loop order
BondEmissions(atoms) ==
    Concat([a \in 1..Len(atoms) |->
        Concat([n \in 1..Len(atoms[a].neighbors) |->
            LET nbr_label == atoms[a].neighbors[n]
            IN  IF ~Known(atoms, nbr_label) THEN <<>>
                ELSE << [key |-> BondKey(atoms[a].charge_group, Group(atoms, nbr_label)),
                         path |-> <<atoms[a].id, nbr_label>>] >>])])

\* mutant of AngleEmissions: only neighbours at adjacent positions are paired
AngleEmissionsAdjacentOnly(atoms) ==
    Concat([b \in 1..Len(atoms) |->
        LET nbrs == atoms[b].neighbors
        IN  Concat([i \in 1..Len(nbrs) |->
                Concat([j \in 1..Len(nbrs) |->
                    IF j # i + 1 \/ ~Known(atoms, nbrs[i]) \/ ~Known(atoms, nbrs[j]) THEN <<>>
                    ELSE << [key |-> AngleKey(Group(atoms, nbrs[i]), atoms[b].charge_group,
                                              Group(atoms, nbrs[j])),
                             path |-> <<nbrs[i], atoms[b].id, nbrs[j]>>] >>])])])

\* mutant of AngleEmissions: the path is written in the order of the key's ends
AngleEmissionsCanonicalPath(atoms) ==
    Concat([b \in 1..Len(atoms) |->
        LET nbrs == atoms[b].neighbors
        IN  Concat([i \in 1..Len(nbrs) |->
                Concat([j \in 1..Len(nbrs) |->
                    IF j <= i \/ ~Known(atoms, nbrs[i]) \/ ~Known(atoms, nbrs[j]) THEN <<>>
                    ELSE << [key |-> AngleKey(Group(atoms, nbrs[i]), atoms[b].charge_group,
                                              Group(atoms, nbrs[j])),
                             path |-> IF StrLess(Group(atoms, nbrs[j]), Group(atoms, nbrs[i]))
                                      THEN <<nbrs[j], atoms[b].id, nbrs[i]>>
                                      ELSE <<nbrs[i], atoms[b].id, nbrs[j]>>] >>])])])

\* lines 38-56: what the angle loop appends, in loop order
AngleEmissions(atoms) ==
    Concat([b \in 1..Len(atoms) |->
        LET nbrs == atoms[b].neighbors
        IN  Concat([i \in 1..Len(nbrs) |->
                Concat([j \in 1..Len(nbrs) |->
                    IF j <= i \/ ~Known(atoms, nbrs[i]) \/ ~Known(atoms, nbrs[j]) THEN <<>>
                    ELSE << [key |-> AngleKey(Group(atoms, nbrs[i]), atoms[b].charge_group,
                                              Group(atoms, nbrs[j])),
                             path |-> <<nbrs[i], atoms[b].id, nbrs[j]>>] >>])])])

\* lines 59-63: the set of sorted identifier pairs, over every listed neighbour
BondPairs(atoms) ==
    UNION {{IF atoms[a].neighbors[n] < atoms[a].id
               THEN <<atoms[a].neighbors[n], atoms[a].id>>
               ELSE <<atoms[a].id, atoms[a].neighbors[n]>> :
            n \in 1..Len(atoms[a].neighbors)} : a \in 1..Len(atoms)}

\* mutant of DihedralEmissions: the four atoms need not be distinct
DihedralEmissionsAnyFour(atoms, bond_pair) ==
    LET b_label == bond_pair[1]
        c_label == bond_pair[2]
    IN  IF ~Known(atoms, b_label) \/ ~Known(atoms, c_label) THEN <<>>
        ELSE
        LET neighbors_b == SelectSeq(Neighbors(atoms, b_label), LAMBDA x : x # c_label)
            neighbors_c == SelectSeq(Neighbors(atoms, c_label), LAMBDA x : x # b_label)
        IN  Concat([i \in 1..Len(neighbors_b) |->
                LET a_label == neighbors_b[i]
                IN  IF ~Known(atoms, a_label) THEN <<>>
                    ELSE Concat([j \in 1..Len(neighbors_c) |->
                        LET d_label == neighbors_c[j]
                        IN  IF ~Known(atoms, d_label) THEN <<>>
                            ELSE << [key |-> DihedralKey(Group(atoms, a_label),
                                                         Group(atoms, b_label),
                                                         Group(atoms, c_label),
                                                         Group(atoms, d_label)),
                                     path |-> <<a_label, b_label, c_label, d_label>>] >>])])

\* lines 66-92: what one iteration of the loop over bond_pairs appends
DihedralEmissions(atoms, bond_pair) ==
    LET b_label == bond_pair[1]
        c_label == bond_pair[2]
    IN  IF ~Known(atoms, b_label) \/ ~Known(atoms, c_label) THEN <<>>
        ELSE
        LET neighbors_b == SelectSeq(Neighbors(atoms, b_label), LAMBDA x : x # c_label)
            neighbors_c == SelectSeq(Neighbors(atoms, c_label), LAMBDA x : x # b_label)
        IN  Concat([i \in 1..Len(neighbors_b) |->
                LET a_label == neighbors_b[i]
                IN  IF ~Known(atoms, a_label) THEN <<>>
                    ELSE Concat([j \in 1..Len(neighbors_c) |->
                        LET d_label == neighbors_c[j]
                        IN  IF ~Known(atoms, d_label)
                               \/ Cardinality({a_label, b_label, c_label, d_label}) < 4
                            THEN <<>>
                            ELSE << [key |-> DihedralKey(Group(atoms, a_label),
                                                         Group(atoms, b_label),
                                                         Group(atoms, c_label),
                                                         Group(atoms, d_label)),
                                     path |-> <<a_label, b_label, c_label, d_label>>] >>])])

\* ------------------------------------------------------ parameter_checker
Arity(ptype) ==
    CASE ptype = "atom" -> 1
      [] ptype = "bond" -> 2
      [] ptype = "angle" -> 3
      [] ptype = "dihedral" -> 4
      [] ptype = "improper" -> 4

\* itertools.permutations([x, y, z]) in generation order
Permutations3(x, y, z) ==
    << <<x, y, z>>, <<x, z, y>>, <<y, x, z>>, <<y, z, x>>, <<z, x, y>>, <<z, y, x>> >>

\* mutant of Orientations: the reverse orientation is never tried
OrientationsForwardOnly(ptype, param_key) ==
    IF ptype = "improper"
    THEN LET perms == Permutations3(param_key[1], param_key[3], param_key[4])
         IN  [p \in 1..6 |-> <<perms[p][1], param_key[2], perms[p][2], perms[p][3]>>]
    ELSE <<param_key>>

\* mutant of Orientations: the second angle orientation swaps the wrong pair
OrientationsAngleRotated(ptype, param_key) ==
    CASE ptype = "bond" -> <<param_key, Reverse(param_key)>>
      [] ptype = "angle" -> <<param_key, <<param_key[2], param_key[1], param_key[3]>> >>
      [] ptype = "dihedral" -> <<param_key, Reverse(param_key)>>
      [] ptype = "improper" ->
            LET perms == Permutations3(param_key[1], param_key[3], param_key[4])
            IN  [p \in 1..6 |-> <<perms[p][1], param_key[2], perms[p][2], perms[p][3]>>]
      [] OTHER -> <<>>

\* mutant of Orientations: an improper is oriented like a dihedral
OrientationsImproperReversed(ptype, param_key) ==
    CASE ptype = "bond" -> <<param_key, Reverse(param_key)>>
      [] ptype = "angle" -> <<param_key, <<param_key[3], param_key[2], param_key[1]>> >>
      [] ptype = "dihedral" -> <<param_key, Reverse(param_key)>>
      [] ptype = "improper" -> <<param_key, Reverse(param_key)>>
      [] OTHER -> <<>>

\* compare_parameters, lines 58-75: the orientations of a query tuple
Orientations(ptype, param_key) ==
    CASE ptype = "bond" -> <<param_key, Reverse(param_key)>>
      [] ptype = "angle" -> <<param_key, <<param_key[3], param_key[2], param_key[1]>> >>
      [] ptype = "dihedral" -> <<param_key, Reverse(param_key)>>
      [] ptype = "improper" ->
            LET central == param_key[2]
                perms == Permutations3(param_key[1], param_key[3], param_key[4])
            IN  [p \in 1..6 |-> <<perms[p][1], central, perms[p][2], perms[p][3]>>]
      [] OTHER -> <<>>

\* lines 80-86: every column equals the orientation's label or is 'X'
RowMatches(row, orientation) ==
    \A i \in 1..Len(orientation) : row.atoms[i] = orientation[i] \/ row.atoms[i] = "X"

\* line 89: the rows of the DataFrame that satisfy all conditions, in order
MatchRows(df, orientation) == SelectSeq(df, LAMBDA row : RowMatches(row, orientation))

\* mutant of MatchLine: the last matching row instead of the first
MatchLineLast(match) == <<match[Len(match)].line>>

\* lines 91-93: the line number taken from a non-empty match
MatchLine(match) == <<match[1].line>>

\* lines 78-94: the orientations in order, stop at the first with a match
RECURSIVE TryOrientations(_, _, _)
TryOrientations(df, orientations, i) ==
    IF i > Len(orientations) THEN [found |-> FALSE, line_number |-> NoLine]
    ELSE LET match == MatchRows(df, orientations[i])
         IN  IF match # <<>>
             THEN [found |-> TRUE, line_number |-> MatchLine(match)]
             ELSE TryOrientations(df, orientations, i + 1)

\* lines 49-101: the row of one key
ParameterRow(df, ptype, param_key) ==
    LET r == TryOrientations(df, Orientations(ptype, param_key), 1)
    IN  [parameter_type |-> ptype, parameters |-> param_key,
         found |-> r.found, line_number |-> r.line_number]

\* compare_parameters(mdf_params, charmm_params, charmm_df, param_type)
compare_parameters(params, cparams, df, ptype) ==
    IF params = <<>> \/ cparams = {} THEN <<>>
    ELSE [k \in 1..Len(params) |-> ParameterRow(df, ptype, params[k].key)]

\* mutant of AtomRow: the line number of the first row of the DataFrame
AtomRowFirstLine(df, atom) ==
    LET match == SelectSeq(df, LAMBDA row : row.atoms[1] = atom)
    IN  [parameter_type |-> "atom", parameters |-> <<atom>>,
         found |-> match # <<>>,
         line_number |-> IF match # <<>> THEN <<df[1].line>> ELSE NoLine]

\* compare_atoms, lines 22-28: the row of one atom type
AtomRow(df, atom) ==
    LET match == SelectSeq(df, LAMBDA row : row.atoms[1] = atom)
    IN  [parameter_type |-> "atom", parameters |-> <<atom>>,
         found |-> match # <<>>,
         line_number |-> IF match # <<>> THEN <<match[1].line>> ELSE NoLine]

\* compare_atoms(mdf_atoms, charmm_atoms, charmm_data), the set iterated in `order`
compare_atoms(order, df) == [k \in 1..Len(order) |-> AtomRow(df, order[k])]

\* main, lines 194-219: the normalized tuples of a category's DataFrame
NormalizeTuple(ptype, t) ==
    CASE ptype = "bond" -> Sorted2(t[1], t[2])
      [] ptype = "angle" -> <<StrMin(t[1], t[3]), t[2], StrMax(t[1], t[3])>>
      [] ptype = "dihedral" -> PyMin(t, Reverse(t))
      [] OTHER -> t
CharmmSet(ptype, df) == {NormalizeTuple(ptype, df[i].atoms) : i \in 1..Len(df)}

\* --------------------------------------------- compare_* as pure functions
\* query tuples hold labels of QueryLabels; the fields of a record are labels
\* or the wildcard token (four-field records draw from fewer labels, which
\* keeps their DataFrames enumerable)
QueryLabels == {"A", "B"}
FieldLabels(n) == IF n <= 3 THEN {"A", "B", "X"} ELSE {"A", "X"}
TupleTypes == {"bond", "angle", "dihedral", "improper"}

\* a DataFrame whose i-th row holds the tuple ts[i], parsed from file line i + 1
FrameOf(ts) == [i \in 1..Len(ts) |-> [atoms |-> ts[i], line |-> i + 1]]
Frames(labels, n) == {FrameOf(ts) : ts \in SeqsUpTo(Tuples(labels, n), MaxRecords)}

\* a dict holding the given keys in order (the values are not read by the checker)
DictOf(ks) == [i \in 1..Len(ks) |-> [key |-> ks[i], paths |-> <<>>]]

\* the inputs named by the scenarios of the specification and of the claims
ScenarioCalls ==
    { [ptype |-> "bond", keys |-> << <<"H", "C">> >>, rows |-> << <<"C", "H">> >>],
      [ptype |-> "bond", keys |-> << <<"C", "H">> >>, rows |-> << <<"X", "C">> >>],
      [ptype |-> "dihedral", keys |-> << <<"A", "B", "C", "D">> >>,
       rows |-> << <<"X", "B", "C", "X">> >>],
      [ptype |-> "dihedral", keys |-> << <<"A", "B", "C", "D">> >>,
       rows |-> << <<"X", "C", "B", "X">>, <<"X", "X", "X", "X">> >>],
      [ptype |-> "improper", keys |-> << <<"A", "B", "C", "D">> >>,
       rows |-> << <<"D", "B", "A", "C">> >>],
      [ptype |-> "improper", keys |-> << <<"A", "B", "C", "D">> >>,
       rows |-> << <<"B", "A", "C", "D">> >>] }

IdleTopology ==
    /\ atoms_data = <<>>
    /\ bond_map = <<>>
    /\ angle_map = <<>>
    /\ dihedral_map = <<>>
    /\ bond_pairs = {}
IdleMain ==
    /\ mdf_angles = {}
    /\ mdf_dihedrals = {}
    /\ charmm_data = <<>>
    /\ charmm_sets = <<>>
IdleSection ==
    /\ permissive = FALSE
    /\ lines = <<>>
    /\ start_line = 0
    /\ line_index = 0
    /\ parsed_data = <<>>
    /\ current_entry = 0
    /\ last_line_was_comment = FALSE
IdleMdf ==
    /\ mdf_file = <<>>
    /\ line_num = 0
    /\ in_molecule_section = FALSE
    /\ column_indices = <<>>
IdleFile ==
    /\ file = <<>>
    /\ file_index = 0
    /\ sections = <<>>
    /\ current_section = ""
    /\ section_lines = <<>>
    /\ current_start_line = 0
    /\ section_index = 0
    /\ parsed_file = <<>>
IdleCompare ==
    /\ param_type = "none"
    /\ mdf_params = <<>>
    /\ charmm_params = {}
    /\ charmm_df = <<>>

InitCompare ==
    /\ pc = "call"
    /\ results = <<>>
    /\ IdleTopology
    /\ IdleMain
    /\ IdleSection
    /\ IdleFile
    /\ IdleMdf
    /\ \/ /\ param_type \in TupleTypes
          /\ mdf_atoms = {}
          /\ mdf_params \in {DictOf(ks) : ks \in SeqsUpTo(Tuples(QueryLabels, Arity(param_type)), 1)}
          /\ charmm_df \in Frames(FieldLabels(Arity(param_type)), Arity(param_type))
          /\ charmm_params = CharmmSet(param_type, charmm_df)
       \/ \E c \in ScenarioCalls :
             /\ param_type = c.ptype
             /\ mdf_atoms = {}
             /\ mdf_params = DictOf(c.keys)
             /\ charmm_df = FrameOf(c.rows)
             /\ charmm_params = CharmmSet(param_type, charmm_df)
       \/ /\ param_type = "atom"
          /\ mdf_atoms \in (SUBSET {"A", "H", "X"}) \ {{}}
          /\ mdf_params = <<>>
          /\ charmm_df \in Frames({"A", "X"}, 1)
          /\ charmm_params = CharmmSet(param_type, charmm_df)

\* compare_parameters called on its inputs
CallCompareParameters ==
    /\ pc = "call"
    /\ param_type \in TupleTypes
    /\ results' = compare_parameters(mdf_params, charmm_params, charmm_df, param_type)
    /\ pc' = "returned"
    /\ UNCHANGED <<mdf_atoms, cmpVars, secVars, fileVars, mdfVars, topoVars, mainVars>>

\* compare_atoms called on its inputs; the set mdf_atoms is iterated in some order
CallCompareAtoms ==
    /\ pc = "call"
    /\ param_type = "atom"
    /\ charmm_df # <<>>
    /\ \E order \in Orderings(mdf_atoms) : results' = compare_atoms(order, charmm_df)
    /\ pc' = "returned"
    /\ UNCHANGED <<mdf_atoms, cmpVars, secVars, fileVars, mdfVars, topoVars, mainVars>>

\* compare_atoms on a DataFrame without rows: it has no column
\* 'Force Field Type', line 22 raises KeyError
CallCompareAtomsNoColumn ==
    /\ pc = "call"
    /\ param_type = "atom"
    /\ charmm_df = <<>>
    /\ mdf_atoms # {}
    /\ pc' = "raised"
    /\ UNCHANGED <<mdf_atoms, results, cmpVars, secVars, fileVars, mdfVars, topoVars, mainVars>>

NextCompare == CallCompareParameters \/ CallCompareAtoms \/ CallCompareAtomsNoColumn

SpecCompare == InitCompare /\ [][NextCompare]_vars

\* ------------------------------------------------ extract_topology, main
\* extract_unique_charge_groups(atoms_data).keys(): the distinct charge groups
extract_unique_charge_groups(atoms) == {atoms[i].charge_group : i \in 1..Len(atoms)}

\* main, lines 158-171: the angle and dihedral keys normalized once more
NormalizeAngle(angle) == <<StrMin(angle[1], angle[3]), angle[2], StrMax(angle[1], angle[3])>>
NormalizeDihedral(dihedral) == PyMin(dihedral, Reverse(dihedral))

Categories == {"ATOMS", "BONDS", "ANGLES", "DIHEDRALS"}
\* `name in charmm_data` and charmm_data[name]
Present(data, name) == data[name].present
Frame(data, name) == data[name].df
\* charmm_data.get(name, pd.DataFrame())
FrameOrEmpty(data, name) == IF Present(data, name) THEN Frame(data, name) ELSE <<>>

\* line 155
UniqueChargeGroups ==
    /\ pc = "charge_groups"
    /\ mdf_atoms' = extract_unique_charge_groups(atoms_data)
    /\ pc' = "extract_bonds"
    /\ UNCHANGED <<results, cmpVars, secVars, fileVars, mdfVars, topoVars, mainVars>>

\* extract_topology, lines 21-35
ExtractBonds ==
    /\ pc = "extract_bonds"
    /\ bond_map' = MapExtend(<<>>, BondEmissions(atoms_data), 1)
    /\ pc' = "extract_angles"
    /\ UNCHANGED <<mdf_atoms, results, cmpVars, secVars, fileVars, mdfVars, mainVars,
                   atoms_data, angle_map, dihedral_map, bond_pairs>>

\* extract_topology, lines 37-63: the angles, then the set bond_pairs
ExtractAngles ==
    /\ pc = "extract_angles"
    /\ angle_map' = MapExtend(<<>>, AngleEmissions(atoms_data), 1)
    /\ bond_pairs' = BondPairs(atoms_data)
    /\ pc' = "extract_dihedrals"
    /\ UNCHANGED <<mdf_atoms, results, cmpVars, secVars, fileVars, mdfVars, mainVars, atoms_data, bond_map, dihedral_map>>

\* extract_topology, lines 65-92: one iteration of `for bond_pair in bond_pairs`;
\* a set is iterated in an order the program does not choose
DihedralStep ==
    /\ pc = "extract_dihedrals"
    /\ \E bond_pair \in bond_pairs :
          /\ dihedral_map' = MapExtend(dihedral_map, DihedralEmissions(atoms_data, bond_pair), 1)
          /\ bond_pairs' = bond_pairs \ {bond_pair}
    /\ UNCHANGED <<pc, mdf_atoms, results, cmpVars, secVars, fileVars, mdfVars, mainVars, atoms_data, bond_map, angle_map>>

\* extract_topology, line 96
ReturnTopology ==
    /\ pc = "extract_dihedrals"
    /\ bond_pairs = {}
    /\ pc' = "normalize"
    /\ UNCHANGED <<mdf_atoms, results, cmpVars, secVars, fileVars, mdfVars, topoVars, mainVars>>

\* main, lines 158-171
NormalizeMdf ==
    /\ pc = "normalize"
    /\ mdf_angles' = {NormalizeAngle(angle_map[i].key) : i \in 1..Len(angle_map)}
    /\ mdf_dihedrals' = {NormalizeDihedral(dihedral_map[i].key) : i \in 1..Len(dihedral_map)}
    /\ pc' = "extract_charmm"
    /\ UNCHANGED <<mdf_atoms, results, cmpVars, secVars, fileVars, mdfVars, topoVars, charmm_data, charmm_sets>>

\* main, lines 192-219
ExtractCharmm ==
    /\ pc = "extract_charmm"
    /\ ~(Present(charmm_data, "ATOMS") /\ Frame(charmm_data, "ATOMS") = <<>>)
    /\ charmm_sets' =
          [atoms |-> CharmmSet("atom", FrameOrEmpty(charmm_data, "ATOMS")),
           bonds |-> CharmmSet("bond", FrameOrEmpty(charmm_data, "BONDS")),
           angles |-> CharmmSet("angle", FrameOrEmpty(charmm_data, "ANGLES")),
           dihedrals |-> CharmmSet("dihedral", FrameOrEmpty(charmm_data, "DIHEDRALS"))]
    /\ pc' = "check_atoms"
    /\ UNCHANGED <<mdf_atoms, results, cmpVars, secVars, fileVars, mdfVars, topoVars, mdf_angles, mdf_dihedrals, charmm_data>>

\* main, line 192: an ATOMS DataFrame without rows has no column
\* 'Force Field Type'; the KeyError ends main at lines 276-280
ExtractCharmmNoColumn ==
    /\ pc = "extract_charmm"
    /\ Present(charmm_data, "ATOMS") /\ Frame(charmm_data, "ATOMS") = <<>>
    /\ pc' = "failed"
    /\ UNCHANGED <<mdf_atoms, results, cmpVars, secVars, fileVars, mdfVars, topoVars, mainVars>>

\* main, lines 232-233
CheckAtoms ==
    /\ pc = "check_atoms"
    /\ Present(charmm_data, "ATOMS")
    /\ \E order \in Orderings(mdf_atoms) :
          results' = results \o compare_atoms(order, Frame(charmm_data, "ATOMS"))
    /\ pc' = "check_bonds"
    /\ UNCHANGED <<mdf_atoms, cmpVars, secVars, fileVars, mdfVars, topoVars, mainVars>>

\* main, lines 236-237
CheckBonds ==
    /\ pc = "check_bonds"
    /\ Present(charmm_data, "BONDS")
    /\ results' = results \o compare_parameters(bond_map, charmm_sets.bonds,
                                                Frame(charmm_data, "BONDS"), "bond")
    /\ pc' = "check_angles"
    /\ UNCHANGED <<mdf_atoms, cmpVars, secVars, fileVars, mdfVars, topoVars, mainVars>>

\* main, lines 240-241
CheckAngles ==
    /\ pc = "check_angles"
    /\ Present(charmm_data, "ANGLES")
    /\ results' = results \o compare_parameters(angle_map, charmm_sets.angles,
                                                Frame(charmm_data, "ANGLES"), "angle")
    /\ pc' = "check_dihedrals"
    /\ UNCHANGED <<mdf_atoms, cmpVars, secVars, fileVars, mdfVars, topoVars, mainVars>>

\* main, lines 244-245
CheckDihedrals ==
    /\ pc = "check_dihedrals"
    /\ Present(charmm_data, "DIHEDRALS")
    /\ results' = results \o compare_parameters(dihedral_map, charmm_sets.dihedrals,
                                                Frame(charmm_data, "DIHEDRALS"), "dihedral")
    /\ pc' = "save"
    /\ UNCHANGED <<mdf_atoms, cmpVars, secVars, fileVars, mdfVars, topoVars, mainVars>>

\* the category whose DataFrame a step of main subscripts
StepCategory(step) ==
    CASE step = "check_atoms" -> "ATOMS"
      [] step = "check_bonds" -> "BONDS"
      [] step = "check_angles" -> "ANGLES"
      [] step = "check_dihedrals" -> "DIHEDRALS"

\* main, lines 232, 236, 240, 244: charmm_data[name] of a category that is not
\* a key raises KeyError; lines 276-280 return 1
MissingCategory ==
    /\ pc \in {"check_atoms", "check_bonds", "check_angles", "check_dihedrals"}
    /\ ~Present(charmm_data, StepCategory(pc))
    /\ pc' = "failed"
    /\ UNCHANGED <<mdf_atoms, results, cmpVars, secVars, fileVars, mdfVars, topoVars, mainVars>>

\* main, lines 248 and 274: the rows are saved, main returns 0
SaveResults ==
    /\ pc = "save"
    /\ pc' = "done"
    /\ UNCHANGED <<mdf_atoms, results, cmpVars, secVars, fileVars, mdfVars, topoVars, mainVars>>

\* ---------------------------------------------------- Connectivity Models
AtomLabels == {"A", "B"}

\* the atoms 1..n with the given charge groups; links[k] = <<a, x>> lists x as
\* the next neighbour of atom a
MoleculeOf(n, groups, links) ==
    [a \in 1..n |->
        [id |-> a, charge_group |-> groups[a],
         neighbors |-> LET mine == SelectSeq(links, LAMBDA l : l[1] = a)
                       IN  [k \in 1..Len(mine) |-> mine[k][2]]]]

\* neighbour entries in the order of the atoms that list them; an entry may
\* name the atom itself, an atom twice, or n + 1, which is no atom
LinkLists(n) ==
    {links \in SeqsUpTo((1..n) \X (1..(n + 1)), MaxLinks) :
        \A k \in 1..(Len(links) - 1) : links[k][1] <= links[k + 1][1]}

\* the chain 1 - 2 - ... - n, every bond listed by both of its atoms
ChainLinks(n) ==
    Concat([a \in 1..n |-> (IF a > 1 THEN << <<a, a - 1>> >> ELSE <<>>)
                              \o (IF a < n THEN << <<a, a + 1>> >> ELSE <<>>)])

\* the models of the repository's tests: three mutually bonded atoms with
\* three labels, and the chain labelled CG1, CG1, CG2 (here A, A, B); a chain
\* of four with a self-loop and a repeated neighbour; a ring of three with
\* a tail; a chain of four whose inner atoms also name an atom that is none
ScenarioMolecules ==
    { MoleculeOf(3, <<"A", "B", "C">>,
                 << <<1, 2>>, <<1, 3>>, <<2, 1>>, <<2, 3>>, <<3, 1>>, <<3, 2>> >>),
      MoleculeOf(3, <<"A", "A", "B">>, ChainLinks(3)),
      MoleculeOf(4, <<"A", "B", "B", "A">>, ChainLinks(4) \o << <<2, 2>>, <<2, 3>> >>),
      MoleculeOf(4, <<"A", "B", "C", "A">>,
                 << <<1, 2>>, <<1, 3>>, <<2, 1>>, <<2, 3>>, <<3, 1>>, <<3, 2>>,
                    <<3, 4>>, <<4, 3>> >>),
      MoleculeOf(4, <<"B", "A", "B", "A">>, ChainLinks(4) \o << <<2, 5>>, <<3, 5>> >>) }

\* atoms_data is a chain of at most MaxAtoms atoms or a model of the tests
IsChainOrScenario ==
    \/ \E n \in 1..MaxAtoms : \E groups \in [1..n -> AtomLabels] :
          atoms_data = MoleculeOf(n, groups, ChainLinks(n))
    \/ atoms_data \in ScenarioMolecules

\* the charge groups given to the atoms of an arbitrarily linked model:
\* B, B, A, A, ... (the chains take every labelling)
LinkedGroups(n) == { [a \in 1..n |-> IF a <= 2 THEN "B" ELSE "A"] }

\* atoms_data is any model of at most MaxLinks atoms and MaxLinks entries
IsLinkedMolecule ==
    \E n \in 1..MaxLinks : \E groups \in LinkedGroups(n) : \E links \in LinkLists(n) :
        atoms_data = MoleculeOf(n, groups, links)

InitTopology ==
    /\ bond_map = <<>>
    /\ angle_map = <<>>
    /\ dihedral_map = <<>>
    /\ bond_pairs = {}
    /\ mdf_atoms = {}
    /\ mdf_angles = {}
    /\ mdf_dihedrals = {}
    /\ charmm_sets = <<>>
    /\ results = <<>>
    /\ IdleCompare
    /\ IdleSection
    /\ IdleFile
    /\ IdleMdf

\* main up to line 171: the topology of a Connectivity Model and its keys
InitDerive ==
    /\ pc = "charge_groups"
    /\ IsLinkedMolecule \/ IsChainOrScenario
    /\ charmm_data = <<>>
    /\ InitTopology

NextDerive ==
    \/ UniqueChargeGroups
    \/ ExtractBonds
    \/ ExtractAngles
    \/ DihedralStep
    \/ ReturnTopology
    \/ NormalizeMdf

SpecDerive == InitDerive /\ [][NextDerive]_vars

\* the parsed parameter file: a category is no key, or a DataFrame without
\* rows (a section of comment or blank lines only), or holds one record
CategoryFrames(ptype) ==
    { [present |-> FALSE, df |-> <<>>],
      [present |-> TRUE, df |-> <<>>],
      [present |-> TRUE, df |-> FrameOf(<< [i \in 1..Arity(ptype) |-> "A"] >>)],
      [present |-> TRUE, df |-> FrameOf(<< [i \in 1..Arity(ptype) |-> "X"] >>)] }

InitCheck ==
    /\ pc = "charge_groups"
    /\ IsChainOrScenario
    /\ \E a \in CategoryFrames("atom") : \E b \in CategoryFrames("bond") :
       \E c \in CategoryFrames("angle") : \E d \in CategoryFrames("dihedral") :
          charmm_data = [ATOMS |-> a, BONDS |-> b, ANGLES |-> c, DIHEDRALS |-> d]
    /\ InitTopology

NextCheck ==
    \/ NextDerive
    \/ ExtractCharmm
    \/ ExtractCharmmNoColumn
    \/ CheckAtoms
    \/ CheckBonds
    \/ CheckAngles
    \/ CheckDihedrals
    \/ MissingCategory
    \/ SaveResults

SpecCheck == InitCheck /\ [][NextCheck]_vars


\* ------------------------------------------------------- section parser
\* A line is the sequence of the whitespace-separated tokens of line.strip();
\* the comment marker '!' is a token of its own.  A float is its value in
\* hundredths; a string or a number that may be None is Some(x) or None.
None == <<>>
Some(x) == <<x>>

\* the longest prefix of a token made of digits and dots ("" when none)
NumberPrefix(tok) ==
    CASE tok = "340.0" -> "340.0"
      [] tok = "1.09" -> "1.09"
      [] tok = "1.2.3" -> "1.2.3"
      [] tok = "2" -> "2"
      [] tok = "1" -> "1"
      [] OTHER -> ""

\* [\d\.]+ matches the whole token
IsNumber(tok) == NumberPrefix(tok) # "" /\ NumberPrefix(tok) = tok

\* float(s) succeeds
FloatParses(s) == s \in {"340.0", "1.09", "2", "1"}
\* float(s), in hundredths
Float(s) == CASE s = "340.0" -> 34000 [] s = "1.09" -> 109 [] s = "2" -> 200 [] s = "1" -> 100

\* not line (after strip)
IsBlank(line) == line = <<>>
\* line.startswith("!")
IsComment(line) == line # <<>> /\ line[1] = "!"
\* line[1:].strip()
CommentText(line) == SubSeq(line, 2, Len(line))

\* re.match(r"(\S+)\s+(\S+)\s+([\d\.]+)\s+([\d\.]+)(?:\s+!\s*(.*))?", line)
BondsMatch(line) ==
    /\ Len(line) >= 4
    /\ IsNumber(line[3])
    /\ NumberPrefix(line[4]) # ""

\* the group initial_comment of the match: None or the text after '!'
InitialComment(line) ==
    IF Len(line) >= 5 /\ IsNumber(line[4]) /\ line[5] = "!"
    THEN SubSeq(line, 6, Len(line))
    ELSE <<>>

\* float(kb) and float(b0) both succeed
BondsFloatsParse(line) == FloatParses(line[3]) /\ FloatParses(NumberPrefix(line[4]))

\* the entry built from a matching line
BondsEntry(line, line_number) ==
    [atoms |-> <<Some(line[1]), Some(line[2])>>,
     kb |-> Some(Float(line[3])),
     b0 |-> Some(Float(NumberPrefix(line[4]))),
     comments |-> IF InitialComment(line) # <<>> THEN <<InitialComment(line)>> ELSE <<>>,
     line |-> line_number]

\* a placeholder that keeps the line number and loses the text of the line
UnparsedEntryWithoutText(line, line_number) ==
    [atoms |-> <<None, None>>,
     kb |-> None,
     b0 |-> None,
     comments |-> << <<"Unparsed", "line:">> >>,
     line |-> line_number]

\* the placeholder of the permissive parser for a line that does not match
UnparsedEntry(line, line_number) ==
    [atoms |-> <<None, None>>,
     kb |-> None,
     b0 |-> None,
     comments |-> << <<"Unparsed", "line:">> \o line >>,
     line |-> line_number]

\* enumerate(lines, start=start_line): the number of the line the loop is at
LineNumber == start_line + line_index - 1
CurrentLine == lines[line_index]
InLoop == pc = "section_loop" /\ line_index <= Len(lines)

\* a blank line
BlankLine ==
    /\ InLoop
    /\ IsBlank(CurrentLine)
    /\ last_line_was_comment' = FALSE
    /\ line_index' = line_index + 1
    /\ UNCHANGED <<pc, mdf_atoms, results, cmpVars, topoVars, mainVars, fileVars, mdfVars,
                   permissive, lines, start_line, parsed_data, current_entry>>

\* a comment line
CommentLine ==
    /\ InLoop
    /\ IsComment(CurrentLine)
    /\ parsed_data' =
          IF current_entry # 0 /\ last_line_was_comment
          THEN [parsed_data EXCEPT ![current_entry].comments =
                                       Append(@, CommentText(CurrentLine))]
          ELSE parsed_data
    /\ last_line_was_comment' = TRUE
    /\ line_index' = line_index + 1
    /\ UNCHANGED <<pc, mdf_atoms, results, cmpVars, topoVars, mainVars, fileVars, mdfVars,
                   permissive, lines, start_line, current_entry>>

\* a line that matches the grammar and whose numbers convert
DataLine ==
    /\ InLoop
    /\ ~IsBlank(CurrentLine) /\ ~IsComment(CurrentLine)
    /\ BondsMatch(CurrentLine) /\ BondsFloatsParse(CurrentLine)
    /\ parsed_data' = Append(parsed_data, BondsEntry(CurrentLine, LineNumber))
    /\ current_entry' = Len(parsed_data) + 1
    /\ last_line_was_comment' = TRUE
    /\ line_index' = line_index + 1
    /\ UNCHANGED <<pc, mdf_atoms, results, cmpVars, topoVars, mainVars, fileVars, mdfVars,
                   permissive, lines, start_line>>

\* a line that matches the grammar and whose number float() rejects: ValueError
DataLineValueError ==
    /\ InLoop
    /\ ~IsBlank(CurrentLine) /\ ~IsComment(CurrentLine)
    /\ BondsMatch(CurrentLine) /\ ~BondsFloatsParse(CurrentLine)
    /\ pc' = "section_raised"
    /\ UNCHANGED <<mdf_atoms, results, cmpVars, topoVars, mainVars, secVars, fileVars, mdfVars>>

\* strict parser: a line that does not match is skipped
UnmatchedLineStrict ==
    /\ InLoop
    /\ ~permissive
    /\ ~IsBlank(CurrentLine) /\ ~IsComment(CurrentLine) /\ ~BondsMatch(CurrentLine)
    /\ line_index' = line_index + 1
    /\ UNCHANGED <<pc, mdf_atoms, results, cmpVars, topoVars, mainVars, fileVars, mdfVars,
                   permissive, lines, start_line, parsed_data, current_entry,
                   last_line_was_comment>>

\* permissive parser: a line that does not match leaves a placeholder
UnmatchedLinePermissive ==
    /\ InLoop
    /\ permissive
    /\ ~IsBlank(CurrentLine) /\ ~IsComment(CurrentLine) /\ ~BondsMatch(CurrentLine)
    /\ parsed_data' = Append(parsed_data, UnparsedEntry(CurrentLine, LineNumber))
    /\ last_line_was_comment' = FALSE
    /\ line_index' = line_index + 1
    /\ UNCHANGED <<pc, mdf_atoms, results, cmpVars, topoVars, mainVars, fileVars, mdfVars,
                   permissive, lines, start_line, current_entry>>

\* the loop is over: return pd.DataFrame(parsed_data)
ReturnSection ==
    /\ pc = "section_loop"
    /\ line_index > Len(lines)
    /\ pc' = "section_returned"
    /\ UNCHANGED <<mdf_atoms, results, cmpVars, topoVars, mainVars, secVars, fileVars, mdfVars>>

\* the lines a section is made of
LineAlphabet ==
    { <<>>,
      <<"!", "c1">>,
      <<"!", "c2">>,
      <<"H", "C", "340.0", "1.09">>,
      <<"C", "C", "340.0", "1.09", "!", "note">>,
      <<"H", "C", "abc">>,
      <<"H", "C", "1.2.3", "1.09">> }

\* the values of start_line: the default, and a section inside a file
StartLines == {0, MaxLines}

InitSection ==
    /\ pc = "section_loop"
    /\ permissive \in BOOLEAN
    /\ lines \in SeqsUpTo(LineAlphabet, MaxLines)
    /\ start_line \in StartLines
    /\ line_index = 1
    /\ parsed_data = <<>>
    /\ current_entry = 0
    /\ last_line_was_comment = FALSE
    /\ mdf_atoms = {}
    /\ results = <<>>
    /\ IdleCompare
    /\ IdleTopology
    /\ IdleMain
    /\ IdleFile
    /\ IdleMdf

NextSection ==
    \/ BlankLine
    \/ CommentLine
    \/ DataLine
    \/ DataLineValueError
    \/ UnmatchedLineStrict
    \/ UnmatchedLinePermissive
    \/ ReturnSection

SpecSection == InitSection /\ [][NextSection]_vars


\* ------------------------------------------------ parse_charmm_parameter_file
\* a dict is the sequence of its entries [key, value] in insertion order
DictHas(d, k) == \E e \in 1..Len(d) : d[e].key = k
DictGet(d, k) == d[CHOOSE e \in 1..Len(d) : d[e].key = k].value
\* d[k] = v: a new key goes to the end, a key already there keeps its place
DictSet(d, k, v) ==
    IF DictHas(d, k)
    THEN [e \in 1..Len(d) |-> IF d[e].key = k THEN [key |-> k, value |-> v] ELSE d[e]]
    ELSE Append(d, [key |-> k, value |-> v])

\* re.IGNORECASE on the tokens used: the token in upper case
UpperCase(tok) ==
    CASE tok = "bonds" -> "BONDS"
      [] tok = "atoms" -> "ATOMS"
      [] tok = "Cmap" -> "CMAP"
      [] OTHER -> tok

\* section_patterns: the section whose pattern matches a text that starts
\* with this token, "" when none does
PatternName(tok) ==
    IF tok \in {"ATOMS", "BONDS", "ANGLES", "DIHEDRALS", "IMPROPER", "CMAP"} THEN tok ELSE ""

\* a header test that tells the letter cases apart
HeaderOfCaseSensitive(line) == IF line = <<>> THEN "" ELSE PatternName(line[1])

\* the for loop over section_patterns with re.match(pattern, line.strip(),
\* re.IGNORECASE): the name of the section the line opens, "" for the else branch
HeaderOf(line) == IF line = <<>> THEN "" ELSE PatternName(UpperCase(line[1]))

\* "if current_section and section_lines: sections[current_section] = {...}"
SaveSection(secs, name, lns, start) ==
    IF name # "" /\ lns # <<>>
    THEN DictSet(secs, name, [lines |-> lns, start_line |-> start])
    ELSE secs

\* a start that numbers the header line itself as the first content line
ParserStartAtHeader(start) == start

\* the start_line handed to the section parsers: start_line+1
ParserStart(start) == start + 1

\* \d+ on the tokens used
IsInteger(tok) == tok \in {"1", "2"}

\* the regular expression of parse_atoms_section
AtomsMatch(line) ==
    /\ Len(line) >= 4
    /\ line[1] = "MASS"
    /\ IsInteger(line[2])
    /\ NumberPrefix(line[4]) # ""

\* float(mass) succeeds
AtomsFloatsParse(line) == FloatParses(NumberPrefix(line[4]))

\* the entry parse_atoms_section builds from a matching line
AtomsEntry(line, line_number) ==
    [atoms |-> <<Some(line[3])>>,
     mass |-> Some(Float(NumberPrefix(line[4]))),
     comments |-> IF InitialComment(line) # <<>> THEN <<InitialComment(line)>> ELSE <<>>,
     line |-> line_number]

\* the placeholder of the permissive parse_atoms_section
AtomsUnparsedEntry(line, line_number) ==
    [atoms |-> <<None>>,
     mass |-> None,
     comments |-> << <<"Unparsed", "line:">> \o line >>,
     line |-> line_number]

\* the grammar, the conversions and the entries of the parser of a section
Matches(name, line) ==
    CASE name = "ATOMS" -> AtomsMatch(line)
      [] name = "BONDS" -> BondsMatch(line)
FloatsParse(name, line) ==
    CASE name = "ATOMS" -> AtomsFloatsParse(line)
      [] name = "BONDS" -> BondsFloatsParse(line)
Entry(name, line, line_number) ==
    CASE name = "ATOMS" -> AtomsEntry(line, line_number)
      [] name = "BONDS" -> BondsEntry(line, line_number)
Unparsed(name, line, line_number) ==
    CASE name = "ATOMS" -> AtomsUnparsedEntry(line, line_number)
      [] name = "BONDS" -> UnparsedEntry(line, line_number)

\* the locals of a section parser before its loop
SectionStart ==
    [parsed_data |-> <<>>, current_entry |-> 0, last_line_was_comment |-> FALSE,
     raised |-> FALSE]

\* one iteration of the loop of a section parser; raised: float() failed
SectionStep(name, perm, st, line, line_number) ==
    IF st.raised THEN st
    ELSE IF IsBlank(line) THEN [st EXCEPT !.last_line_was_comment = FALSE]
    ELSE IF IsComment(line)
         THEN [st EXCEPT !.parsed_data =
                             IF st.current_entry # 0 /\ st.last_line_was_comment
                             THEN [@ EXCEPT ![st.current_entry].comments =
                                                Append(@, CommentText(line))]
                             ELSE @,
                         !.last_line_was_comment = TRUE]
    ELSE IF Matches(name, line)
         THEN IF FloatsParse(name, line)
              THEN [st EXCEPT !.parsed_data = Append(@, Entry(name, line, line_number)),
                              !.current_entry = Len(st.parsed_data) + 1,
                              !.last_line_was_comment = TRUE]
              ELSE [st EXCEPT !.raised = TRUE]
    ELSE IF perm
         THEN [st EXCEPT !.parsed_data = Append(@, Unparsed(name, line, line_number)),
                         !.last_line_was_comment = FALSE]
         ELSE st

\* the loop of a section parser over the first k lines
RECURSIVE SectionFold(_, _, _, _, _)
SectionFold(name, perm, lns, start, k) ==
    IF k = 0 THEN SectionStart
    ELSE SectionStep(name, perm, SectionFold(name, perm, lns, start, k - 1),
                     lns[k], start + k - 1)

\* parse_<name>_section(lines, start_line)
ParseSection(name, perm, lns, start) == SectionFold(name, perm, lns, start, Len(lns))

CurrentFileLine == file[file_index]
InSplitLoop == pc = "split_loop" /\ file_index <= Len(file)

\* a line that matches a header pattern: save the previous section, start a new one
SplitHeader ==
    /\ InSplitLoop
    /\ HeaderOf(CurrentFileLine) # ""
    /\ sections' = SaveSection(sections, current_section, section_lines, current_start_line)
    /\ current_section' = HeaderOf(CurrentFileLine)
    /\ section_lines' = <<>>
    /\ current_start_line' = file_index
    /\ file_index' = file_index + 1
    /\ UNCHANGED <<pc, mdf_atoms, results, cmpVars, topoVars, mainVars, secVars, mdfVars,
                   file, section_index, parsed_file>>

\* the else branch inside a section: the stripped line is accumulated
SplitContent ==
    /\ InSplitLoop
    /\ HeaderOf(CurrentFileLine) = ""
    /\ current_section # ""
    /\ section_lines' = Append(section_lines, CurrentFileLine)
    /\ file_index' = file_index + 1
    /\ UNCHANGED <<pc, mdf_atoms, results, cmpVars, topoVars, mainVars, secVars, mdfVars,
                   file, sections, current_section, current_start_line, section_index,
                   parsed_file>>

\* the else branch before the first header: nothing is kept
SplitDiscard ==
    /\ InSplitLoop
    /\ HeaderOf(CurrentFileLine) = ""
    /\ current_section = ""
    /\ file_index' = file_index + 1
    /\ UNCHANGED <<pc, mdf_atoms, results, cmpVars, topoVars, mainVars, secVars, mdfVars,
                   file, sections, current_section, section_lines, current_start_line,
                   section_index, parsed_file>>

\* after the loop: save the last section
SplitEnd ==
    /\ pc = "split_loop"
    /\ file_index > Len(file)
    /\ sections' = SaveSection(sections, current_section, section_lines, current_start_line)
    /\ section_index' = 1
    /\ pc' = "parse_loop"
    /\ UNCHANGED <<mdf_atoms, results, cmpVars, topoVars, mainVars, secVars, mdfVars,
                   file, file_index, current_section, section_lines, current_start_line,
                   parsed_file>>

InParseLoop == pc = "parse_loop" /\ section_index <= Len(sections)
SectionName == sections[section_index].key
SectionResult ==
    ParseSection(SectionName, permissive, sections[section_index].value.lines,
                 ParserStart(sections[section_index].value.start_line))

\* a section with a parser: parsed_data[name] = parse_<name>_section(...)
ParseNamedSection ==
    /\ InParseLoop
    /\ SectionName # "CMAP"
    /\ ~SectionResult.raised
    /\ parsed_file' = DictSet(parsed_file, SectionName, SectionResult.parsed_data)
    /\ section_index' = section_index + 1
    /\ UNCHANGED <<pc, mdf_atoms, results, cmpVars, topoVars, mainVars, secVars, mdfVars,
                   file, file_index, sections, current_section, section_lines,
                   current_start_line>>

\* a section whose parser raises ValueError: the exception leaves the function
ParseSectionValueError ==
    /\ InParseLoop
    /\ SectionName # "CMAP"
    /\ SectionResult.raised
    /\ pc' = "file_raised"
    /\ UNCHANGED <<mdf_atoms, results, cmpVars, topoVars, mainVars, secVars, fileVars, mdfVars>>

\* a CMAP section has no parser: no branch (strict), pass (permissive)
SkipCmap ==
    /\ InParseLoop
    /\ SectionName = "CMAP"
    /\ section_index' = section_index + 1
    /\ UNCHANGED <<pc, mdf_atoms, results, cmpVars, topoVars, mainVars, secVars, mdfVars,
                   file, file_index, sections, current_section, section_lines,
                   current_start_line, parsed_file>>

\* return parsed_data
ReturnFile ==
    /\ pc = "parse_loop"
    /\ section_index > Len(sections)
    /\ pc' = "file_returned"
    /\ UNCHANGED <<mdf_atoms, results, cmpVars, topoVars, mainVars, secVars, fileVars, mdfVars>>

\* the lines a parameter file is made of
FileAlphabet ==
    { <<>>,
      <<"!", "c1">>,
      <<"H", "C", "340.0", "1.09">>,
      <<"MASS", "2", "H", "1.09">>,
      <<"H", "C", "abc">>,
      <<"ATOMS">>,
      <<"BONDS">>,
      <<"bonds">> }

\* the file of the parser's test, a file with a CMAP section, a file with a
\* number float() rejects, and a file whose BONDS header comes twice
ScenarioFiles ==
    { << <<"ATOMS">>,
         <<"MASS", "1", "H", "1.09", "!", "Hydrogen">>,
         <<"MASS", "2", "C", "340.0", "!", "Carbon">>,
         <<>>,
         <<"BONDS">>,
         <<"H", "C", "340.0", "1.09", "!", "Aliphatic", "CH">> >>,
      << <<"!", "c1">>, <<"Cmap">>, <<"H", "C", "abc">>, <<"atoms">>,
         <<"MASS", "2", "H", "1.09">> >>,
      << <<"BONDS">>, <<"H", "C", "1.2.3", "1.09">>, <<"H", "C", "340.0", "1.09">> >>,
      << <<"BONDS">>, <<"H", "C", "340.0", "1.09">>, <<"!", "c1">>, <<"BONDS">>,
         <<"C", "C", "340.0", "1.09">> >> }

InitFile ==
    /\ pc = "split_loop"
    /\ permissive \in BOOLEAN
    /\ \/ \E n \in 0..MaxLines : file \in [1..n -> FileAlphabet]
       \/ file \in ScenarioFiles
    /\ file_index = 1
    /\ sections = <<>>
    /\ current_section = ""
    /\ section_lines = <<>>
    /\ current_start_line = 0
    /\ section_index = 0
    /\ parsed_file = <<>>
    /\ lines = <<>>
    /\ start_line = 0
    /\ line_index = 0
    /\ parsed_data = <<>>
    /\ current_entry = 0
    /\ last_line_was_comment = FALSE
    /\ mdf_atoms = {}
    /\ results = <<>>
    /\ IdleCompare
    /\ IdleTopology
    /\ IdleMain
    /\ IdleMdf

NextFile ==
    \/ SplitHeader
    \/ SplitContent
    \/ SplitDiscard
    \/ SplitEnd
    \/ ParseNamedSection
    \/ ParseSectionValueError
    \/ SkipCmap
    \/ ReturnFile

SpecFile == InitFile /\ [][NextFile]_vars

\* ------------------------------------------------------------ parse_mdf_file
\* a line of the connectivity file is the sequence of its fields, line.split()
\* line.startswith('@column'), line.startswith('@molecule')
IsColumnLine(parts) == parts # <<>> /\ parts[1] = "@column"
IsMoleculeLine(parts) == parts # <<>> /\ parts[1] = "@molecule"
\* line.startswith(('!', '#'))
IsMdfComment(parts) == parts # <<>> /\ parts[1] \in {"!", "#"}
\* int() on the tokens used
IntParses(tok) == tok \in {"1", "2", "3"}
IntOf(tok) == CASE tok = "1" -> 1 [] tok = "2" -> 2 [] tok = "3" -> 3
\* part.startswith('C') on the tokens used
StartsWithC(tok) == tok \in {"C", "CG1", "CG2"}
\* token.split('/') on the tokens used
SplitSlash(tok) ==
    CASE tok = "MOL:1:C1/1" -> <<"MOL:1:C1", "1">>
      [] tok = "MOL:1:C2/1" -> <<"MOL:1:C2", "1">>
      [] tok = "MOL:1:C3/1" -> <<"MOL:1:C3", "1">>
      [] OTHER -> <<tok>>
\* parts.index(part): the first position that holds the token
FirstIndex(parts, tok) ==
    CHOOSE i \in 1..Len(parts) : parts[i] = tok /\ \A j \in 1..(i - 1) : parts[j] # tok
\* the connections kept from a token: every piece but '?'
Connections(tok) == SelectSeq(SplitSlash(tok), LAMBDA conn : conn # "?")
\* the loop "for part in parts" over the first p fields: after every field
\* that starts with 'C' the next field is split into neighbours
RECURSIVE NeighborsUpTo(_, _)
NeighborsUpTo(parts, p) ==
    IF p = 0 THEN <<>>
    ELSE NeighborsUpTo(parts, p - 1) \o
         (IF StartsWithC(parts[p]) /\ Len(parts) > FirstIndex(parts, parts[p])
          THEN Connections(parts[FirstIndex(parts, parts[p]) + 1])
          ELSE <<>>)
\* the entry stored for a line: atom_id, charge_group, neighbors
AtomEntry(parts) ==
    [id |-> parts[1],
     charge_group |-> IF Len(parts) > 2 THEN parts[3] ELSE "",
     neighbors |-> NeighborsUpTo(parts, Len(parts))]
\* a store in which the first line of an identifier wins
AtomsSetFirstWins(atoms, entry) ==
    IF Known(atoms, entry.id) THEN atoms ELSE Append(atoms, entry)

\* atoms_data[atom_id] = {...}: a known identifier keeps its place
AtomsSet(atoms, entry) ==
    IF Known(atoms, entry.id)
    THEN [i \in 1..Len(atoms) |-> IF atoms[i].id = entry.id THEN entry ELSE atoms[i]]
    ELSE Append(atoms, entry)

CurrentMdfLine == mdf_file[line_num]
InMdfLoop == pc = "mdf_loop" /\ line_num <= Len(mdf_file)

\* an empty line
MdfBlankLine ==
    /\ InMdfLoop
    /\ CurrentMdfLine = <<>>
    /\ line_num' = line_num + 1
    /\ UNCHANGED <<pc, mdf_atoms, results, cmpVars, topoVars, mainVars, secVars, fileVars,
                   mdf_file, in_molecule_section, column_indices>>

\* a column definition: recorded when it has three fields
MdfColumnLine ==
    /\ InMdfLoop
    /\ IsColumnLine(CurrentMdfLine)
    /\ Len(CurrentMdfLine) >= 3 => IntParses(CurrentMdfLine[2])
    /\ column_indices' =
          IF Len(CurrentMdfLine) >= 3
          THEN DictSet(column_indices, CurrentMdfLine[3], IntOf(CurrentMdfLine[2]) - 1)
          ELSE column_indices
    /\ line_num' = line_num + 1
    /\ UNCHANGED <<pc, mdf_atoms, results, cmpVars, topoVars, mainVars, secVars, fileVars,
                   mdf_file, in_molecule_section>>

\* a column definition whose number int() rejects: the ValueError is caught
\* by "except Exception" and raised again as Exception
MdfColumnError ==
    /\ InMdfLoop
    /\ IsColumnLine(CurrentMdfLine)
    /\ Len(CurrentMdfLine) >= 3 /\ ~IntParses(CurrentMdfLine[2])
    /\ pc' = "mdf_error"
    /\ UNCHANGED <<mdf_atoms, results, cmpVars, topoVars, mainVars, secVars, fileVars,
                   mdfVars>>

\* the start of the molecule section
MdfMoleculeLine ==
    /\ InMdfLoop
    /\ IsMoleculeLine(CurrentMdfLine)
    /\ in_molecule_section' = TRUE
    /\ line_num' = line_num + 1
    /\ UNCHANGED <<pc, mdf_atoms, results, cmpVars, topoVars, mainVars, secVars, fileVars,
                   mdf_file, column_indices>>

\* a comment, or any line before the molecule section: skipped
MdfSkippedLine ==
    /\ InMdfLoop
    /\ CurrentMdfLine # <<>>
    /\ ~IsColumnLine(CurrentMdfLine) /\ ~IsMoleculeLine(CurrentMdfLine)
    /\ IsMdfComment(CurrentMdfLine) \/ ~in_molecule_section
    /\ line_num' = line_num + 1
    /\ UNCHANGED <<pc, mdf_atoms, results, cmpVars, topoVars, mainVars, secVars, fileVars,
                   mdf_file, in_molecule_section, column_indices>>

\* a line of the molecule section: its atom is stored
MdfAtomLine ==
    /\ InMdfLoop
    /\ CurrentMdfLine # <<>>
    /\ ~IsColumnLine(CurrentMdfLine) /\ ~IsMoleculeLine(CurrentMdfLine)
    /\ ~IsMdfComment(CurrentMdfLine) /\ in_molecule_section
    /\ atoms_data' = AtomsSet(atoms_data, AtomEntry(CurrentMdfLine))
    /\ line_num' = line_num + 1
    /\ UNCHANGED <<pc, mdf_atoms, results, cmpVars, mainVars, secVars, fileVars,
                   bond_map, angle_map, dihedral_map, bond_pairs,
                   mdf_file, in_molecule_section, column_indices>>

\* after the loop, "if not atoms_data": ValueError
MdfNoData ==
    /\ pc = "mdf_loop"
    /\ line_num > Len(mdf_file)
    /\ atoms_data = <<>>
    /\ pc' = "mdf_no_data"
    /\ UNCHANGED <<mdf_atoms, results, cmpVars, topoVars, mainVars, secVars, fileVars,
                   mdfVars>>

\* return atoms_data
MdfReturn ==
    /\ pc = "mdf_loop"
    /\ line_num > Len(mdf_file)
    /\ atoms_data # <<>>
    /\ pc' = "mdf_returned"
    /\ UNCHANGED <<mdf_atoms, results, cmpVars, topoVars, mainVars, secVars, fileVars,
                   mdfVars>>

\* the three atom lines of the parser's test, their coordinate fields cut to one
TestAtomLines ==
    << <<"MOL:1:C1", "1", "CG1", "0.0", "MOL:1:C2/1">>,
       <<"MOL:1:C2", "2", "CG1", "1.0", "MOL:1:C1/1", "MOL:1:C3/1">>,
       <<"MOL:1:C3", "3", "CG2", "2.0", "MOL:1:C2/1">> >>

\* the lines a connectivity file is made of
MdfAlphabet ==
    { <<>>,
      <<"!", "note">>,
      <<"#", "note">>,
      <<"@column", "1", "element">>,
      <<"@column", "x", "element">>,
      <<"@molecule", "MOL">>,
      TestAtomLines[1],
      TestAtomLines[2],
      <<"MOL:1:C1", "C", "CG2", "?", "C", "MOL:1:C2/1">>,
      <<"MOL:1:C2">> }

\* the file of the parser's test, and the same lines in a molecule section
ScenarioMdfFiles ==
    { << <<>> >> \o TestAtomLines,
      << <<"@molecule", "MOL">> >> \o TestAtomLines }

InitMdf ==
    /\ pc = "mdf_loop"
    /\ \/ \E n \in 0..MaxMdfLines : mdf_file \in [1..n -> MdfAlphabet]
       \/ mdf_file \in ScenarioMdfFiles
    /\ line_num = 1
    /\ in_molecule_section = FALSE
    /\ column_indices = <<>>
    /\ mdf_atoms = {}
    /\ results = <<>>
    /\ IdleCompare
    /\ IdleTopology
    /\ IdleMain
    /\ IdleSection
    /\ IdleFile

NextMdf ==
    \/ MdfBlankLine
    \/ MdfColumnLine
    \/ MdfColumnError
    \/ MdfMoleculeLine
    \/ MdfSkippedLine
    \/ MdfAtomLine
    \/ MdfNoData
    \/ MdfReturn

SpecMdf == InitMdf /\ [][NextMdf]_vars

\* ------------------------------------------------- claims on compare_*
\* the orientations a category's rule allows, as a set (stated independently
\* of the order in which compare_parameters generates them)
OrientationSet(ptype, t) ==
    CASE ptype = "atom" -> {t}
      [] ptype = "bond" -> {t, <<t[2], t[1]>>}
      [] ptype = "angle" -> {t, <<t[3], t[2], t[1]>>}
      [] ptype = "dihedral" -> {t, <<t[4], t[3], t[2], t[1]>>}
      [] ptype = "improper" ->
            {<<t[p[1]], t[2], t[p[2]], t[p[3]]>> : p \in Orderings({1, 3, 4})}

\* positionally equal or wildcard / positionally equal
WildMatch(rec, o) == \A i \in 1..Len(o) : rec[i] = o[i] \/ rec[i] = "X"
ExactMatch(rec, o) == \A i \in 1..Len(o) : rec[i] = o[i]

\* the rows reported for a query tuple
RowsOf(t) == {k \in 1..Len(results) : results[k].parameters = t}
Returned(ptype) == pc = "returned" /\ param_type = ptype
\* the found flag compare_parameters gives the query t on the current records
FoundFor(t) == compare_parameters(DictOf(<<t>>), charmm_params, charmm_df, param_type)[1].found

\* C3: a dihedral query is reported found exactly when some Dihedral record
\* equals the query or its reverse position by position, a field 'X' of the
\* record standing for any label; (X,B,C,X) matches (A,B,C,D) and a record of
\* four wildcards matches every query.
C3_DihedralFoundIffWildcardMatch ==
    Returned("dihedral") =>
        \A k \in 1..Len(mdf_params) :
            LET t == mdf_params[k].key
                matched == \E o \in {t, Reverse(t)} : \E i \in 1..Len(charmm_df) :
                               WildMatch(charmm_df[i].atoms, o)
            IN  /\ (\E r \in RowsOf(t) : results[r].found) <=> matched
                /\ (\E i \in 1..Len(charmm_df) : charmm_df[i].atoms = <<"X", "X", "X", "X">>)
                      => (\E r \in RowsOf(t) : results[r].found)
                /\ (t = <<"A", "B", "C", "D">>
                      /\ \E i \in 1..Len(charmm_df) : charmm_df[i].atoms = <<"X", "B", "C", "X">>)
                      => (\E r \in RowsOf(t) : results[r].found)

C3_Witness ==
    /\ Returned("dihedral")
    /\ Keys(mdf_params) = << <<"A", "B", "C", "D">> >>
    /\ charmm_df = FrameOf(<< <<"X", "B", "C", "X">> >>)
    /\ Len(results) = 1 /\ results[1].found

\* C4 (as claimed): for atom-type, bond and angle queries a found row rests on
\* a record that equals an orientation of the query label by label, 'X'
\* matching only a literal 'X'.
C4_WildcardOnlyInDihedralImproper ==
    (pc = "returned" /\ param_type \in {"atom", "bond", "angle"}) =>
        \A k \in 1..Len(results) :
            results[k].found =>
                \E o \in OrientationSet(param_type, results[k].parameters) :
                    \E i \in 1..Len(charmm_df) : ExactMatch(charmm_df[i].atoms, o)

\* C5: a bond query is found whenever a Bond record lists its two labels in
\* either order, an angle query whenever an Angle record has its center and
\* its two ends in either order; reversing the query leaves found unchanged.
C5_BondAngleOrientation ==
    (pc = "returned" /\ param_type \in {"bond", "angle"}) =>
        \A k \in 1..Len(mdf_params) :
            LET t == mdf_params[k].key
            IN  /\ (\E i \in 1..Len(charmm_df) :
                        charmm_df[i].atoms = t \/ charmm_df[i].atoms = Reverse(t))
                      => (\E r \in RowsOf(t) : results[r].found)
                /\ charmm_df # <<>> =>
                      \A r \in RowsOf(t) : results[r].found = FoundFor(Reverse(t))

C5_Witness ==
    /\ Returned("angle")
    /\ Keys(mdf_params) = << <<"A", "B", "B">> >>
    /\ charmm_df = FrameOf(<< <<"B", "B", "A">> >>)
    /\ Len(results) = 1 /\ results[1].found

\* C7: a found row reports the line of the earliest record, in file order,
\* that matches the first orientation, in generation order, matched by any
\* record.
C7_FirstOrientationFirstRecord ==
    (pc = "returned" /\ param_type \in TupleTypes) =>
        \A k \in 1..Len(results) :
            results[k].found =>
                LET ors == Orientations(param_type, results[k].parameters)
                    hit(oi) == {i \in 1..Len(charmm_df) : WildMatch(charmm_df[i].atoms, ors[oi])}
                IN  \E oi \in 1..Len(ors) :
                        /\ hit(oi) # {}
                        /\ \A oj \in 1..(oi - 1) : hit(oj) = {}
                        /\ \E i \in hit(oi) :
                              /\ \A j \in hit(oi) : i <= j
                              /\ results[k].line_number = <<charmm_df[i].line>>

\* the first orientation matches only the second record, the reverse
\* orientation matches the first record: the second record's line is reported
C7_Witness ==
    /\ Returned("bond")
    /\ Keys(mdf_params) = << <<"A", "B">> >>
    /\ charmm_df = FrameOf(<< <<"B", "A">>, <<"A", "B">> >>)
    /\ Len(results) = 1 /\ results[1].line_number = <<charmm_df[2].line>>

\* C8: in every row found is false exactly when line_number is None, and a
\* found row carries the line number of a record of the category's DataFrame
\* that matches the row's tuple under one of the category's orientations
\* (label by label for atom types, equal-or-'X' in compare_parameters).
C8_FoundIffLineNumber ==
    pc = "returned" =>
        \A k \in 1..Len(results) :
            /\ (results[k].found = FALSE) <=> (results[k].line_number = NoLine)
            /\ results[k].found =>
                  \E i \in 1..Len(charmm_df) :
                      /\ results[k].line_number = <<charmm_df[i].line>>
                      /\ \E o \in OrientationSet(param_type, results[k].parameters) :
                            IF param_type = "atom"
                            THEN ExactMatch(charmm_df[i].atoms, o)
                            ELSE WildMatch(charmm_df[i].atoms, o)

C8_Witness ==
    /\ Returned("atom")
    /\ mdf_atoms = {"A", "H"}
    /\ charmm_df = FrameOf(<< <<"X">>, <<"A">> >>)
    /\ \E k \in 1..2 : results[k].found /\ results[k].line_number = <<3>>
    /\ \E k \in 1..2 : ~results[k].found /\ results[k].line_number = NoLine

\* C9: an improper query (a, b, c, d) is tested in all six orderings of a, c, d
\* around b: found holds exactly when a record matches one of them, it is the
\* same for every permutation of the three outer labels of the query, and a
\* record whose second field is neither b nor 'X' is never the one reported.
C9_ImproperPermutations ==
    Returned("improper") =>
        \A k \in 1..Len(mdf_params) :
            LET t == mdf_params[k].key
                os == OrientationSet("improper", t)
                matched == \E o \in os : \E i \in 1..Len(charmm_df) :
                               WildMatch(charmm_df[i].atoms, o)
            IN  /\ (\E r \in RowsOf(t) : results[r].found) <=> matched
                /\ charmm_df # <<>> =>
                      \A o \in os : \A r \in RowsOf(t) : FoundFor(o) = results[r].found
                /\ \A r \in RowsOf(t) : \A i \in 1..Len(charmm_df) :
                      (results[r].found /\ results[r].line_number = <<charmm_df[i].line>>)
                          => charmm_df[i].atoms[2] \in {t[2], "X"}

\* the record lists the outer labels of the query in the order d, a, c
C9_Witness ==
    /\ Returned("improper")
    /\ Keys(mdf_params) = << <<"A", "B", "C", "D">> >>
    /\ charmm_df = FrameOf(<< <<"D", "B", "A", "C">> >>)
    /\ Len(results) = 1 /\ results[1].found

\* ------------------------------------------- claims on extract_topology
\* the charge groups along a recorded atom path
PathGroups(path) == [i \in 1..Len(path) |-> Group(atoms_data, path[i])]

\* C10: every key of the three maps is canonical: a bond key (x, y) has
\* x <= y, an angle key (x, c, z) has x <= z and c is the charge group of the
\* central atom of each of its paths, a dihedral key k has k <= reverse(k);
\* canonicalizing a key once more, as main does for angle and dihedral keys,
\* returns the key.
C10_KeysCanonical ==
    /\ \A e \in 1..Len(bond_map) :
          LET k == bond_map[e].key
          IN  Len(k) = 2 /\ ~StrLess(k[2], k[1]) /\ BondKey(k[1], k[2]) = k
    /\ \A e \in 1..Len(angle_map) :
          LET k == angle_map[e].key
          IN  /\ Len(k) = 3 /\ ~StrLess(k[3], k[1])
              /\ \A q \in 1..Len(angle_map[e].paths) :
                    Group(atoms_data, angle_map[e].paths[q][2]) = k[2]
              /\ NormalizeAngle(k) = k
    /\ \A e \in 1..Len(dihedral_map) :
          LET k == dihedral_map[e].key
          IN  Len(k) = 4 /\ ~TupleLess(Reverse(k), k) /\ NormalizeDihedral(k) = k
    /\ pc = "extract_charmm" =>
          /\ mdf_angles = {angle_map[e].key : e \in 1..Len(angle_map)}
          /\ mdf_dihedrals = {dihedral_map[e].key : e \in 1..Len(dihedral_map)}

\* main has normalized the keys of a model in which a bond, an angle and a
\* dihedral were each discovered against the canonical order
C10_Witness ==
    /\ pc = "extract_charmm"
    /\ \E e \in 1..Len(bond_map) : \E q \in 1..Len(bond_map[e].paths) :
          PathGroups(bond_map[e].paths[q]) # bond_map[e].key
    /\ \E e \in 1..Len(angle_map) : \E q \in 1..Len(angle_map[e].paths) :
          PathGroups(angle_map[e].paths[q]) # angle_map[e].key
    /\ \E e \in 1..Len(dihedral_map) : \E q \in 1..Len(dihedral_map[e].paths) :
          PathGroups(dihedral_map[e].paths[q]) # dihedral_map[e].key


\* the identifiers of the atoms of the model
AtomIds == {atoms_data[i].id : i \in 1..Len(atoms_data)}
\* atom a is in the model and names b in its neighbour list
Lists(a, b) ==
    a \in AtomIds /\ \E n \in 1..Len(Neighbors(atoms_data, a)) : Neighbors(atoms_data, a)[n] = b
\* the entries of a map that record the atom path
EntriesWith(map, path) ==
    {e \in 1..Len(map) : \E q \in 1..Len(map[e].paths) : map[e].paths[q] = path}
\* extract_topology has returned its three mappings (line 96)
TopologyDone == pc = "normalize"

\* C11: when atoms a and b list each other, the paths a-b and b-a are
\* recorded under one and the same entry of the bond mapping, and no other
\* entry of the mapping carries that entry's key.
C11_MutualBondOneEntry ==
    TopologyDone =>
        \A a \in AtomIds : \A b \in AtomIds :
            (Lists(a, b) /\ Lists(b, a)) =>
                /\ Cardinality(EntriesWith(bond_map, <<a, b>>)) = 1
                /\ EntriesWith(bond_map, <<a, b>>) = EntriesWith(bond_map, <<b, a>>)
                /\ \A e \in EntriesWith(bond_map, <<a, b>>) : \A f \in 1..Len(bond_map) :
                      bond_map[f].key = bond_map[e].key => f = e

\* two atoms of different charge groups list each other, the one visited
\* first against the canonical order, and both paths are recorded
C11_Witness ==
    /\ TopologyDone
    /\ \E a \in AtomIds : \E b \in AtomIds :
          /\ a < b /\ Lists(a, b) /\ Lists(b, a)
          /\ StrLess(Group(atoms_data, b), Group(atoms_data, a))
          /\ EntriesWith(bond_map, <<a, b>>) # {}
          /\ EntriesWith(bond_map, <<b, a>>) # {}

\* C12: every atom path recorded under a dihedral key names four pairwise
\* distinct atoms, whatever the model (self-loops, repeated neighbours,
\* rings of three); a model of three atoms or fewer, in particular three
\* mutually bonded atoms, yields no dihedral.
C12_DihedralFourDistinct ==
    /\ \A e \in 1..Len(dihedral_map) : \A q \in 1..Len(dihedral_map[e].paths) :
          LET path == dihedral_map[e].paths[q]
          IN  Len(path) = 4 /\ Cardinality({path[i] : i \in 1..4}) = 4
    /\ Len(atoms_data) <= 3 => dihedral_map = <<>>

\* a dihedral was recorded in a model with a self-loop or a repeated neighbour
C12_Witness ==
    /\ TopologyDone
    /\ dihedral_map # <<>>
    /\ \E i \in 1..Len(atoms_data) :
          LET nbrs == atoms_data[i].neighbors
          IN  \/ \E n \in 1..Len(nbrs) : nbrs[n] = atoms_data[i].id
              \/ \E n \in 1..Len(nbrs) : \E m \in 1..Len(nbrs) : n # m /\ nbrs[n] = nbrs[m]

\* three mutually bonded atoms were processed to the end
C12_TriangleWitness ==
    /\ TopologyDone
    /\ Len(atoms_data) = 3
    /\ \A a \in AtomIds : \A b \in AtomIds : a # b => Lists(a, b)

\* the label pair with the smaller label first
SmallerFirst(x, y) == IF StrLess(y, x) THEN <<y, x>> ELSE <<x, y>>
\* the bond keys the claim expects: atoms A and known neighbours B of A
ExpectedBondKeys ==
    { SmallerFirst(Group(atoms_data, a), Group(atoms_data, b)) :
        <<a, b>> \in {ab \in AtomIds \X AtomIds : Lists(ab[1], ab[2])} }
\* the angle keys the claim expects: a center and two positions i < j of its
\* neighbour list that both name atoms of the model
ExpectedAngleKeys ==
    UNION { { LET ends == SmallerFirst(Group(atoms_data, Neighbors(atoms_data, c)[ij[1]]),
                                       Group(atoms_data, Neighbors(atoms_data, c)[ij[2]]))
              IN  <<ends[1], Group(atoms_data, c), ends[2]>> :
              ij \in { p \in (1..Len(Neighbors(atoms_data, c))) \X (1..Len(Neighbors(atoms_data, c))) :
                         /\ p[1] < p[2]
                         /\ Neighbors(atoms_data, c)[p[1]] \in AtomIds
                         /\ Neighbors(atoms_data, c)[p[2]] \in AtomIds } } :
            c \in AtomIds }
\* the keys of a map are pairwise different
KeysDistinct(map) == \A e \in 1..Len(map) : \A f \in 1..Len(map) : map[e].key = map[f].key => e = f

\* C13: the keys of the bond mapping are exactly the sorted label pairs of
\* the atoms and their known neighbours, the keys of the angle mapping are
\* exactly the (smaller end, center, larger end) triples of the pairs of
\* known neighbours of each atom, each key once; three mutually bonded
\* atoms with three labels give 3 bonds and 3 angles, the chain labelled
\* A, A, B gives the 2 bonds (A, A) and (A, B).
C13_BondAngleKeySets ==
    /\ TopologyDone =>
          /\ {bond_map[e].key : e \in 1..Len(bond_map)} = ExpectedBondKeys
          /\ KeysDistinct(bond_map)
    /\ TopologyDone =>
          /\ {angle_map[e].key : e \in 1..Len(angle_map)} = ExpectedAngleKeys
          /\ KeysDistinct(angle_map)
    /\ (TopologyDone /\ Len(atoms_data) = 3
          /\ Cardinality({atoms_data[i].charge_group : i \in 1..3}) = 3
          /\ \A a \in AtomIds : \A b \in AtomIds : a # b => Lists(a, b)
          /\ \A i \in 1..3 : Len(atoms_data[i].neighbors) = 2) =>
          Len(bond_map) = 3 /\ Len(angle_map) = 3
    /\ (TopologyDone /\ atoms_data = MoleculeOf(3, <<"A", "A", "B">>, ChainLinks(3))) =>
          {bond_map[e].key : e \in 1..Len(bond_map)} = {<<"A", "A">>, <<"A", "B">>}

\* the angles of the three mutually bonded atoms with three labels are done
C13_Witness ==
    /\ TopologyDone
    /\ Len(atoms_data) = 3
    /\ Cardinality({atoms_data[i].charge_group : i \in 1..3}) = 3
    /\ Len(bond_map) = 3 /\ Len(angle_map) = 3

\* the model names a neighbour that is not one of its atoms
HasDangling ==
    \E i \in 1..Len(atoms_data) : \E n \in 1..Len(atoms_data[i].neighbors) :
        atoms_data[i].neighbors[n] \notin AtomIds
\* every atom path of a map names atoms of the model only
PathsKnown(map) ==
    \A e \in 1..Len(map) : \A q \in 1..Len(map[e].paths) :
        \A i \in 1..Len(map[e].paths[q]) : map[e].paths[q][i] \in AtomIds

\* C14: on a model whose neighbour lists name identifiers that are not its
\* atoms, extract_topology is never stopped by an error (it is at one of
\* its statements or has returned) and no bond, angle or dihedral path of
\* the mappings it returns names such an identifier.
C14_DanglingTolerated ==
    /\ pc \in {"charge_groups", "extract_bonds", "extract_angles", "extract_dihedrals",
               "normalize", "extract_charmm"}
    /\ (TopologyDone /\ HasDangling) =>
          PathsKnown(bond_map) /\ PathsKnown(angle_map) /\ PathsKnown(dihedral_map)

\* extract_topology returned paths for a model with a dangling neighbour
\* that sits beside known neighbours of a bonded atom
C14_Witness ==
    /\ TopologyDone
    /\ HasDangling
    /\ bond_map # <<>>
    /\ \E i \in 1..Len(atoms_data) : \E n \in 1..Len(atoms_data[i].neighbors) :
          \E m \in 1..Len(atoms_data[i].neighbors) :
             /\ atoms_data[i].neighbors[n] \notin AtomIds
             /\ atoms_data[i].neighbors[m] \in AtomIds

\* ------------------------------------------------------- claims on main
\* the rows of the report for the tuple t of a category
ReportRows(ptype, t) ==
    {k \in 1..Len(results) : results[k].parameter_type = ptype /\ results[k].parameters = t}

\* C1 (as claimed): a completed reconciliation reports exactly one row per
\* queried atom type and per key of the bond, angle and dihedral maps, also
\* when a category is present without records.
C1_OneRowPerTuple ==
    pc = "done" =>
        /\ Len(results) = Cardinality(mdf_atoms) + Len(bond_map) + Len(angle_map)
                            + Len(dihedral_map)
        /\ \A a \in mdf_atoms : Cardinality(ReportRows("atom", <<a>>)) = 1
        /\ \A e \in 1..Len(bond_map) : Cardinality(ReportRows("bond", bond_map[e].key)) = 1
        /\ \A e \in 1..Len(angle_map) : Cardinality(ReportRows("angle", angle_map[e].key)) = 1
        /\ \A e \in 1..Len(dihedral_map) :
              Cardinality(ReportRows("dihedral", dihedral_map[e].key)) = 1

\* the derived tuples of the category a step of main compares
DerivedCount(name) ==
    CASE name = "ATOMS" -> Cardinality(mdf_atoms)
      [] name = "BONDS" -> Len(bond_map)
      [] name = "ANGLES" -> Len(angle_map)
      [] name = "DIHEDRALS" -> Len(dihedral_map)

\* the parameter records hold no record of the category (no section, or a
\* section without records)
NoRecords(name) == ~Present(charmm_data, name) \/ Frame(charmm_data, name) = <<>>

\* C6 (as claimed): reconciliation fails only when the parameter records hold
\* nothing of some category while tuples of that category were derived; in
\* every other case it completes, and each derived tuple of a category that
\* has records gets its row.
C6_FailsOnlyOnNeededAbsentCategory ==
    /\ pc = "failed" =>
          \E name \in Categories : NoRecords(name) /\ DerivedCount(name) > 0
    /\ pc = "done" =>
          /\ ~NoRecords("BONDS") =>
                \A e \in 1..Len(bond_map) : ReportRows("bond", bond_map[e].key) # {}
          /\ ~NoRecords("ANGLES") =>
                \A e \in 1..Len(angle_map) : ReportRows("angle", angle_map[e].key) # {}
          /\ ~NoRecords("DIHEDRALS") =>
                \A e \in 1..Len(dihedral_map) :
                    ReportRows("dihedral", dihedral_map[e].key) # {}

\* ---------------------------------------------- claims on section parsers
\* the section holds only blank lines, comment lines and well-formed data lines
WellFormedSection ==
    \A j \in 1..Len(lines) :
        \/ IsBlank(lines[j])
        \/ IsComment(lines[j])
        \/ BondsMatch(lines[j]) /\ BondsFloatsParse(lines[j])

\* the position in lines of the data line of record k
DataPosition(k) == parsed_data[k].line - start_line + 1

\* the comment lines that follow position p with no blank line and no data
\* line in between, in file order
FollowingComments(p) ==
    LET InRun(q) == \A j \in (p + 1)..q : IsComment(lines[j])
        run == {q \in (p + 1)..Len(lines) : InRun(q)}
    IN  [i \in 1..Cardinality(run) |-> CommentText(lines[p + i])]

\* C2: in a section of well-formed data lines, comment lines and blank lines
\* the comments of a record are its inline comment (if any) followed by the
\* text of exactly the comment lines that come after its data line with no
\* blank line in between, in file order; a comment line before the first
\* record or after a blank line is attached to no record.
C2_CommentsAttachUntilBlank ==
    (pc = "section_returned" /\ WellFormedSection) =>
        \A k \in 1..Len(parsed_data) :
            parsed_data[k].comments =
                (IF InitialComment(lines[DataPosition(k)]) # <<>>
                 THEN <<InitialComment(lines[DataPosition(k)])>> ELSE <<>>)
                \o FollowingComments(DataPosition(k))

\* C16 (as claimed): the section parser never fails on the content of a data
\* line: whatever the lines, the loop goes on to the last line and the parser
\* returns its records; it never stops with an exception at a line.
C16_SectionNeverRaises ==
    (pc # "section_loop") => (pc = "section_returned" /\ line_index = Len(lines) + 1)

\* the lines the loop has dealt with that are neither blank nor comments
ProcessedContent ==
    {k \in 1..(line_index - 1) : ~IsBlank(lines[k]) /\ ~IsComment(lines[k])}
\* the records made from the line at position k
RecordsOfLine(k) == {r \in 1..Len(parsed_data) : parsed_data[r].line = start_line + k - 1}
\* the text the placeholder keeps: what follows "Unparsed line: "
PlaceholderText(rec) == SubSeq(rec.comments[1], 3, Len(rec.comments[1]))

\* C17: a non-blank, non-comment line that fails the grammar has no record in
\* the strict parser; in the permissive parser it has exactly one record,
\* whose labels and coefficients are None, whose comment holds the text of
\* the line and whose line number is the line's; and the permissive parser
\* has as many records as it has dealt with non-blank, non-comment lines.
C17_UnparsedLineHandling ==
    /\ \A k \in ProcessedContent :
          ~BondsMatch(lines[k]) =>
             IF permissive
             THEN \E r \in 1..Len(parsed_data) :
                     /\ RecordsOfLine(k) = {r}
                     /\ parsed_data[r].atoms = <<None, None>>
                     /\ parsed_data[r].kb = None
                     /\ parsed_data[r].b0 = None
                     /\ Len(parsed_data[r].comments) = 1
                     /\ PlaceholderText(parsed_data[r]) = lines[k]
             ELSE RecordsOfLine(k) = {}
    /\ permissive => Len(parsed_data) = Cardinality(ProcessedContent)

\* the permissive parser returns from a section that holds a matching line, a
\* line that fails the grammar and a comment line
C17_Witness ==
    /\ pc = "section_returned"
    /\ \E k \in ProcessedContent : ~BondsMatch(lines[k])
    /\ \E k \in ProcessedContent : BondsMatch(lines[k])
    /\ permissive
    /\ \E k \in 1..Len(lines) : IsComment(lines[k])

\* --------------------------------- claims on parse_charmm_parameter_file
\* the line at position k of the file starts with a header token, in any case
IsHeaderLine(k) == file[k] # <<>> /\ PatternName(UpperCase(file[k][1])) # ""
HeaderNameAt(h) == PatternName(UpperCase(file[h][1]))
\* the position of the last header among the first k lines, 0 when there is none
NearestHeader(k) ==
    IF \E h \in 1..k : IsHeaderLine(h)
    THEN CHOOSE h \in 1..k : IsHeaderLine(h) /\ \A j \in (h + 1)..k : ~IsHeaderLine(j)
    ELSE 0
WithoutComments(rec) == [rec EXCEPT !.comments = <<>>]
\* rec is what the parser of the section makes of this line, read at line n
ParsedFrom(name, rec, line, n) ==
    IF Matches(name, line)
    THEN WithoutComments(rec) = WithoutComments(Entry(name, line, n))
    ELSE permissive /\ ~IsBlank(line) /\ ~IsComment(line) /\ rec = Unparsed(name, line, n)

\* C15: every record and every placeholder of the result carries as line
\* number the 1-based position in the file of the line it was parsed from:
\* that line lies under a header of the record's category, is what the
\* record was made from, and no two records of a category share a line.
C15_LineNumbersAbsolute ==
    \A e \in 1..Len(parsed_file) :
        LET name == parsed_file[e].key
            frame == parsed_file[e].value
        IN  /\ \A r \in 1..Len(frame) :
                  /\ frame[r].line \in 1..Len(file)
                  /\ ~IsHeaderLine(frame[r].line)
                  /\ NearestHeader(frame[r].line) # 0
                  /\ HeaderNameAt(NearestHeader(frame[r].line)) = name
                  /\ ParsedFrom(name, frame[r], file[frame[r].line], frame[r].line)
            /\ \A r1 \in 1..Len(frame) : \A r2 \in 1..Len(frame) :
                  frame[r1].line = frame[r2].line => r1 = r2

\* the parser returns a record of a line that follows a blank or comment
\* line and lies under a header that is not the first line of the file
C15_Witness ==
    /\ pc = "file_returned"
    /\ \E e \in 1..Len(parsed_file) : \E r \in 1..Len(parsed_file[e].value) :
          LET n == parsed_file[e].value[r].line
          IN  /\ NearestHeader(n) > 1
              /\ \E k \in 1..(n - 1) : IsBlank(file[k]) \/ IsComment(file[k])

\* C18 (as claimed): the result has a key only for a category with at least
\* one record, and the records of a category are in file order.
C18_NoEmptyCategory ==
    pc = "file_returned" =>
        \A e \in 1..Len(parsed_file) :
            LET frame == parsed_file[e].value
            IN  /\ frame # <<>>
                /\ \A r1 \in 1..Len(frame) : \A r2 \in 1..Len(frame) :
                      r1 < r2 => frame[r1].line < frame[r2].line

\* C19: in the splitting pass, after any number of lines, the section in
\* progress is the one opened by the last header read so far, its lines are
\* exactly the lines read after that header (none of them a header), and
\* before the first header nothing is kept; every saved section holds the
\* lines between a header of its name and the next header or the end of file.
C19_SplittingPass ==
    /\ pc = "split_loop" =>
          LET n == file_index - 1
              h == NearestHeader(n)
          IN  IF h = 0
              THEN current_section = "" /\ section_lines = <<>> /\ sections = <<>>
              ELSE /\ current_section = HeaderNameAt(h)
                   /\ current_start_line = h
                   /\ section_lines = SubSeq(file, h + 1, n)
    /\ \A e \in 1..Len(sections) :
          LET v == sections[e].value
              last == v.start_line + Len(v.lines)
          IN  /\ v.start_line \in 1..Len(file)
              /\ IsHeaderLine(v.start_line)
              /\ HeaderNameAt(v.start_line) = sections[e].key
              /\ last <= Len(file)
              /\ v.lines = SubSeq(file, v.start_line + 1, last)
              /\ \A k \in (v.start_line + 1)..last : ~IsHeaderLine(k)
              /\ last = Len(file) \/ IsHeaderLine(last + 1)

\* the pass has read a file that begins with a line outside any section and
\* holds a header in lower case, and has saved a section
C19_Witness ==
    /\ pc = "split_loop"
    /\ file_index > Len(file)
    /\ Len(file) >= 2
    /\ ~IsHeaderLine(1)
    /\ \E k \in 1..Len(file) : IsHeaderLine(k) /\ HeaderOfCaseSensitive(file[k]) = ""
    /\ sections # <<>>
    /\ section_lines # <<>>

\* ------------------------------------------------- claims on parse_mdf_file
\* the positions of the lines that are not blank, not comments and not
\* '@' directives
MdfDataLines ==
    {k \in 1..Len(mdf_file) :
        /\ mdf_file[k] # <<>>
        /\ ~IsMdfComment(mdf_file[k])
        /\ ~IsColumnLine(mdf_file[k]) /\ ~IsMoleculeLine(mdf_file[k])}
MdfFinished == pc \in {"mdf_returned", "mdf_no_data"}

\* C20 (as claimed): when the parse is over, every non-blank, non-comment
\* line with at least three fields has given an atom keyed by its field 0,
\* the atom's charge group is field 2 of the last line with that
\* identifier, and there are as many atoms as identifiers on such lines:
\* three atom lines with distinct identifiers give three atoms.
C20_OneAtomPerLine ==
    MdfFinished =>
        LET full == {k \in MdfDataLines : Len(mdf_file[k]) >= 3}
        IN  /\ \A k \in full :
                  /\ Known(atoms_data, mdf_file[k][1])
                  /\ (\A j \in full : j > k => mdf_file[j][1] # mdf_file[k][1]) =>
                        Group(atoms_data, mdf_file[k][1]) = mdf_file[k][3]
            /\ Len(atoms_data) >= Cardinality({mdf_file[k][1] : k \in full})

\* the positions of the lines of the molecule section read so far that are
\* not blank, not comments and not '@' directives
StoredLines ==
    {k \in MdfDataLines : k < line_num /\ \E j \in 1..(k - 1) : IsMoleculeLine(mdf_file[j])}
\* the last of them that carries the identifier
LastLineOf(id) ==
    CHOOSE k \in StoredLines :
        /\ mdf_file[k][1] = id
        /\ \A j \in StoredLines : mdf_file[j][1] = id => j <= k
\* a neighbour field of the lines used, and the identifier it names
IsNeighborField(tok) == tok \in {"MOL:1:C1/1", "MOL:1:C2/1", "MOL:1:C3/1"}
BareIdentifier(tok) ==
    CASE tok = "MOL:1:C1/1" -> "MOL:1:C1"
      [] tok = "MOL:1:C2/1" -> "MOL:1:C2"
      [] tok = "MOL:1:C3/1" -> "MOL:1:C3"
NamedNeighbors(parts) ==
    LET fields == SelectSeq(parts, IsNeighborField)
    IN  [i \in 1..Len(fields) |-> BareIdentifier(fields[i])]

\* C21 (as claimed): the neighbour list of a returned atom holds exactly the
\* identifiers named by the neighbour fields of its line, in the order
\* written, without the bond-order suffix: MOL:1:C2/1 gives MOL:1:C2.
C21_NeighborsAreNamedIdentifiers ==
    pc = "mdf_returned" =>
        \A i \in 1..Len(atoms_data) :
            atoms_data[i].neighbors = NamedNeighbors(mdf_file[LastLineOf(atoms_data[i].id)])

\* C22 (as claimed): a line with fewer than three fields creates no atom:
\* every atom of the result comes from a line that has a charge-group field.
C22_ShortLineCreatesNoAtom ==
    MdfFinished =>
        \A i \in 1..Len(atoms_data) :
            \E k \in MdfDataLines :
                Len(mdf_file[k]) >= 3 /\ mdf_file[k][1] = atoms_data[i].id

\* C23: the model holds one atom per identifier, and that atom is the one
\* made from the last line read so far that carries the identifier; every
\* line of the molecule section read so far has its identifier in the model.
C23_LastLineWins ==
    /\ \A i \in 1..Len(atoms_data) : \A j \in 1..Len(atoms_data) :
          atoms_data[i].id = atoms_data[j].id => i = j
    /\ pc \in {"mdf_loop", "mdf_returned", "mdf_no_data", "mdf_error"} =>
          /\ \A k \in StoredLines : Known(atoms_data, mdf_file[k][1])
          /\ \A i \in 1..Len(atoms_data) :
                /\ \E k \in StoredLines : mdf_file[k][1] = atoms_data[i].id
                /\ LET last == mdf_file[LastLineOf(atoms_data[i].id)]
                   IN  /\ atoms_data[i].charge_group = (IF Len(last) > 2 THEN last[3] ELSE "")
                       /\ atoms_data[i].neighbors = NeighborsUpTo(last, Len(last))

\* the parser returns from a file with two lines of the same identifier that
\* differ in charge group and in neighbours
C23_Witness ==
    /\ pc = "mdf_returned"
    /\ \E k1 \in StoredLines : \E k2 \in StoredLines :
          /\ k1 < k2
          /\ mdf_file[k1][1] = mdf_file[k2][1]
          /\ Len(mdf_file[k1]) > 2 /\ Len(mdf_file[k2]) > 2
          /\ mdf_file[k1][3] # mdf_file[k2][3]
          /\ NeighborsUpTo(mdf_file[k1], Len(mdf_file[k1])) #
                NeighborsUpTo(mdf_file[k2], Len(mdf_file[k2]))

\* C24 (as claimed): the parameter parser never returns an empty result: a
\* result that is returned holds at least one record.
C24_NoEmptyResult ==
    pc = "file_returned" =>
        \E e \in 1..Len(parsed_file) : parsed_file[e].value # <<>>

\* C28 (as claimed): every line that lies under a header of a category and
\* satisfies the grammar of that category has a record with its line number
\* in the category's output, also when the header of the category comes more
\* than once.
C28_NoRecordLost ==
    pc = "file_returned" =>
        \A k \in 1..Len(file) :
            LET h == NearestHeader(k)
            IN  (/\ h # 0
                 /\ ~IsHeaderLine(k)
                 /\ HeaderNameAt(h) \in {"ATOMS", "BONDS"}
                 /\ Matches(HeaderNameAt(h), file[k])) =>
                    /\ DictHas(parsed_file, HeaderNameAt(h))
                    /\ \E r \in 1..Len(DictGet(parsed_file, HeaderNameAt(h))) :
                          DictGet(parsed_file, HeaderNameAt(h))[r].line = k

\* a step of a section parser leaves every record as it is, or appends one
\* record at the end, or appends one comment to the last record
StepAppendsAtEnd ==
    /\ Len(parsed_data') \in {Len(parsed_data), Len(parsed_data) + 1}
    /\ \A k \in 1..Len(parsed_data) :
          \/ parsed_data'[k] = parsed_data[k]
          \/ /\ k = Len(parsed_data)
             /\ Len(parsed_data') = Len(parsed_data)
             /\ WithoutComments(parsed_data'[k]) = WithoutComments(parsed_data[k])
             /\ Len(parsed_data'[k].comments) = Len(parsed_data[k].comments) + 1
             /\ SubSeq(parsed_data'[k].comments, 1, Len(parsed_data[k].comments)) =
                   parsed_data[k].comments

\* C25 (as claimed): within a section parse the record list only grows at
\* its end and a record that is no longer the last one never changes: a
\* comment line is appended to the last record of the list or to none.
C25_RecordsAppendOnly == [][StepAppendsAtEnd]_vars

\* what the strict and the permissive bonds parser return for the lines
StrictRun == ParseSection("BONDS", FALSE, lines, start_line)
PermissiveRun == ParseSection("BONDS", TRUE, lines, start_line)
IsPlaceholder(rec) == rec.atoms = <<None, None>>

\* C30 (as claimed): on lines on which both parsers complete, the permissive
\* output without its placeholders is the strict output: the same records
\* with the same fields, line numbers and comment lists.
C30_StrictPermissiveAgree ==
    (pc = "section_returned" /\ ~StrictRun.raised /\ ~PermissiveRun.raised) =>
        /\ parsed_data = (IF permissive THEN PermissiveRun ELSE StrictRun).parsed_data
        /\ SelectSeq(PermissiveRun.parsed_data, LAMBDA rec : ~IsPlaceholder(rec)) =
              StrictRun.parsed_data

\* ------------------------------------- further claims on extract_topology
\* the dihedral mapping of the run that takes the pairs of S in ascending order
LeastPair(S) ==
    CHOOSE p \in S : \A q \in S : p[1] < q[1] \/ (p[1] = q[1] /\ p[2] <= q[2])
RECURSIVE DihedralMapInOrder(_, _)
DihedralMapInOrder(map, S) ==
    IF S = {} THEN map
    ELSE DihedralMapInOrder(
             MapExtend(map, DihedralEmissions(atoms_data, LeastPair(S)), 1),
             S \ {LeastPair(S)})

\* C27 (as claimed): every run on a model returns the same dihedral mapping,
\* keys and paths in the same order: the mapping of any run is the mapping
\* of the run that iterates the bonded pairs in ascending order.
C27_SameResultEveryRun ==
    TopologyDone => dihedral_map = DihedralMapInOrder(<<>>, BondPairs(atoms_data))

\* C29 (as claimed): every path recorded under an angle key names three
\* pairwise distinct atoms.
C29_AngleThreeDistinct ==
    \A e \in 1..Len(angle_map) : \A k \in 1..Len(angle_map[e].paths) :
        Cardinality({angle_map[e].paths[k][i] : i \in 1..3}) = 3

\* the entries of the neighbour list of the atom at position b that are atoms
KnownNeighbors(b) ==
    SelectSeq(atoms_data[b].neighbors, LAMBDA x : Known(atoms_data, x))
\* the places (entry, position) of the angle mapping
AnglePlaces ==
    UNION {{<<e, k>> : k \in 1..Len(angle_map[e].paths)} : e \in 1..Len(angle_map)}
PathAt(place) == angle_map[place[1]].paths[place[2]]
\* the pairs of positions i < j of a list
PositionPairs(list) == {ij \in (1..Len(list)) \X (1..Len(list)) : ij[1] < ij[2]}

\* C26: the atom B with k neighbour entries that are atoms has exactly
\* k*(k-1)/2 angle paths with B in the middle; the path A-B-C is recorded as
\* often as there are positions i < j at which the neighbour list names A
\* and C, A first, whatever the order of their labels in the key, and under
\* the canonical key of their labels.
C26_AnglePathsPerAtom ==
    TopologyDone =>
        /\ \A b \in 1..Len(atoms_data) :
              LET nbrs == KnownNeighbors(b)
                  k == Len(nbrs)
                  mine == {place \in AnglePlaces : PathAt(place)[2] = atoms_data[b].id}
              IN  /\ 2 * Cardinality(mine) = k * (k - 1)
                  /\ \A ij \in PositionPairs(nbrs) :
                        LET path == <<nbrs[ij[1]], atoms_data[b].id, nbrs[ij[2]]>>
                        IN  Cardinality({place \in mine : PathAt(place) = path}) =
                               Cardinality({pq \in PositionPairs(nbrs) :
                                               nbrs[pq[1]] = path[1] /\ nbrs[pq[2]] = path[3]})
        /\ \A place \in AnglePlaces :
              angle_map[place[1]].key =
                 AngleKey(Group(atoms_data, PathAt(place)[1]), Group(atoms_data, PathAt(place)[2]),
                          Group(atoms_data, PathAt(place)[3]))

\* a finished run on a model with an atom of three known neighbours, one of
\* whose paths runs from the larger label to the smaller, and an atom with
\* a single neighbour
C26_Witness ==
    /\ TopologyDone
    /\ \E b \in 1..Len(atoms_data) : Len(KnownNeighbors(b)) = 3
    /\ \E b \in 1..Len(atoms_data) : Len(atoms_data[b].neighbors) = 1
    /\ \E place \in AnglePlaces :
          StrLess(Group(atoms_data, PathAt(place)[3]), Group(atoms_data, PathAt(place)[1]))


====
